---- MODULE Spec2Model ----
(***************************************************************************)
(* Model of the selectable table widget of canvas-cli (pkg/ui/table.go)    *)
(* and of the bubbletea session that drives it.                            *)
(*                                                                         *)
(* A TableModel value is the record m; its methods are operators from a    *)
(* record to the record after the call.  Go indices are 0-based: row i of  *)
(* the code is element i+1 of a TLA+ sequence.                             *)
(***************************************************************************)
EXTENDS Integers, Sequences, FiniteSets, TLC

VARIABLES
    m,           \* the TableModel held by the program (table.go:18-28)
    pc,          \* "setup": built, not yet run; "running": inside tea.Program.Run; "quit"
    clampSwaps,  \* which clamp the linked bubbles/table build has (see clamp)
    invoked,     \* callbacks invoked by the last processed message, in order
    committed,   \* some callback has been invoked by a commit of this session
    lastOp,      \* the last method call or key processed
    toggles,     \* history: how many times ToggleRow ran on each index
    conf,        \* the configuration component (see InitConfig)
    api,         \* the API client and its last call (see ApiIdle)
    bulk,        \* the bulk action on selected users (see BulkIdle)
    proc,        \* the process of a top-level command (see NewCommand)
    detail,      \* the assignment detail view (see DetailIdle)
    form,        \* the form of "assignments add" (see FormIdle)
    cform,       \* the interactive configuration form (see CFormIdle)
    sess         \* the assignments list command: its nested programs

vars == <<m, pc, clampSwaps, invoked, committed, lastOp, toggles, conf, api, bulk, proc, detail, form, cform, sess>>

\* The variables of the table session, and those of the other components.
tableVars == <<m, pc, clampSwaps, invoked, committed, lastOp, toggles>>

otherVars == <<conf, api, bulk, proc, detail, form, cform, sess>>

\* Largest number of rows a table is constructed with.
MaxRows == 3

\* Largest number of ToggleRow calls counted per index (SpecToggle only).
MaxToggles == 2

\* Height every caller passes to table.WithHeight when it builds the table.
CallerHeight == 15

\* Height of the tables rebuilt by the widget itself.
FixedHeight == 25

\* The indicator cell of a selected row (U+2713 in the source); "" otherwise.
CheckMark == "check"

min(a, b) == IF a < b THEN a ELSE b

max(a, b) == IF a > b THEN a ELSE b

\* The i-th (0-based) row built by a caller from a domain record: id and name cells.
RowOf(i) == <<ToString(101 + i), "user" \o ToString(i)>>

RowsOf(n) == [i \in 1..n |-> RowOf(i - 1)]

\* Indices ToggleRow can be applied to: a row index, or the cursor of an empty table.
Idx == (-1)..(MaxRows - 1)

(***************************************************************************)
(* bubbles/table as used through m.table                                   *)
(***************************************************************************)

\* table.Model.cursor is clamped into [0, len(rows)-1].  Releases of bubbles
\* differ when the table is empty (high < low): the older clamp returns
\* min(max(v, low), high), the newer one swaps the bounds first.  The
\* repository pins no release, so the build decides: clampSwaps.
clamp(v, low, high) ==
    IF clampSwaps /\ high < low
    THEN min(low, max(high, v))
    ELSE min(max(v, low), high)

\* table.New(WithColumns, WithRows(rows), WithFocused(true), WithHeight(h))
tableNew(rows, h) == [rows |-> rows, cursor |-> 0, height |-> h]

SetCursor(t, n) == [t EXCEPT !.cursor = clamp(n, 0, Len(t.rows) - 1)]

MoveUp(t, n) == [t EXCEPT !.cursor = clamp(t.cursor - n, 0, Len(t.rows) - 1)]

\* Fault: the cursor wraps past the last row instead of stopping there.
MoveDown_Wraps(t, n) ==
    [t EXCEPT !.cursor = IF Len(t.rows) = 0 THEN 0 ELSE (t.cursor + n) % Len(t.rows)]

MoveDown(t, n) == [t EXCEPT !.cursor = clamp(t.cursor + n, 0, Len(t.rows) - 1)]

\* Rows of one page: the height less the header line.
viewportHeight(t) == t.height - 1

NavKeys == {"up", "k", "down", "j", "pgup", "b", "pgdown", "f",
            "u", "ctrl+u", "d", "ctrl+d", "home", "g", "end", "G"}

\* Keys that no handler binds, and a message that is no key at all.
OtherMsgs == {"x", "WindowSizeMsg"}

\* m.table.Update(msg) of a focused table: the default key map.
tableUpdate(t, msg) ==
    CASE msg \in {"up", "k"}       -> MoveUp(t, 1)
      [] msg \in {"down", "j"}     -> MoveDown(t, 1)
      [] msg \in {"pgup", "b"}     -> MoveUp(t, viewportHeight(t))
      [] msg \in {"pgdown", "f"}   -> MoveDown(t, viewportHeight(t))
      [] msg \in {"u", "ctrl+u"}   -> MoveUp(t, viewportHeight(t) \div 2)
      [] msg \in {"d", "ctrl+d"}   -> MoveDown(t, viewportHeight(t) \div 2)
      [] msg \in {"home", "g"}     -> MoveUp(t, t.cursor)
      [] msg \in {"end", "G"}      -> MoveDown(t, Len(t.rows))
      [] OTHER                     -> t

\* Fault: the first row is delivered instead of the row at the cursor.
SelectedRow_First(t) == IF Len(t.rows) = 0 THEN <<>> ELSE t.rows[1]

\* m.table.SelectedRow(): nil (the empty row) when the cursor is on no row.
SelectedRow(t) ==
    IF t.cursor < 0 \/ t.cursor >= Len(t.rows) THEN <<>> ELSE t.rows[t.cursor + 1]

(***************************************************************************)
(* TableModel                                                              *)
(***************************************************************************)

NewTableModel(t) ==
    [table           |-> t,
     baseRows        |-> t.rows,
     selectedRows    |-> {},
     multiSelectMode |-> FALSE,
     OnSelect        |-> FALSE,
     OnMultiSelect   |-> FALSE]

IsRowSelected(mm, index) == index \in mm.selectedRows

\* The rebuilt rows: indicator cell, then the cells of the base row.
IndicatorRows(mm) ==
    [i \in 1..Len(mm.baseRows) |->
        <<IF IsRowSelected(mm, i - 1) THEN CheckMark ELSE "">> \o mm.baseRows[i]]

\* Fault: the rebuilt table keeps the cursor table.New gave it.
updateTableWithSelectionIndicators_CursorReset(mm) ==
    [mm EXCEPT !.table = tableNew(IndicatorRows(mm), FixedHeight)]

updateTableWithSelectionIndicators(mm) ==
    [mm EXCEPT !.table =
        SetCursor(tableNew(IndicatorRows(mm), FixedHeight), mm.table.cursor)]

\* Fault: the key is set and never deleted.
ToggleIndex_AddOnly(sel, currentIndex) == sel \cup {currentIndex}

\* The map update of ToggleRow: delete the key if present, else set it.
ToggleIndex(sel, currentIndex) ==
    IF currentIndex \in sel THEN sel \ {currentIndex} ELSE sel \cup {currentIndex}

\* Fault: the table is not rebuilt after the Selection Set changed.
ToggleRow_NoRefresh(mm) ==
    [mm EXCEPT !.selectedRows = ToggleIndex(@, mm.table.cursor)]

ToggleRow(mm) ==
    LET toggled == [mm EXCEPT !.selectedRows = ToggleIndex(@, mm.table.cursor)]
    IN  IF toggled.multiSelectMode
        THEN updateTableWithSelectionIndicators(toggled)
        ELSE toggled

\* The base rows from position i (1-based) on whose index is selected, in row order.
RECURSIVE SelectedFrom(_, _)
SelectedFrom(mm, i) ==
    IF i > Len(mm.baseRows) THEN <<>>
    ELSE (IF (i - 1) \in mm.selectedRows THEN <<mm.baseRows[i]>> ELSE <<>>)
         \o SelectedFrom(mm, i + 1)

RECURSIVE SelectedDownFrom(_, _)
SelectedDownFrom(mm, i) ==
    IF i < 1 THEN <<>>
    ELSE (IF (i - 1) \in mm.selectedRows THEN <<mm.baseRows[i]>> ELSE <<>>)
         \o SelectedDownFrom(mm, i - 1)

\* Fault: the rows are collected from the last index down.
GetSelectedRows_Descending(mm) == SelectedDownFrom(mm, Len(mm.baseRows))

RECURSIVE SelectedTableRowsFrom(_, _)
SelectedTableRowsFrom(mm, i) ==
    IF i > Len(mm.table.rows) THEN <<>>
    ELSE (IF (i - 1) \in mm.selectedRows THEN <<mm.table.rows[i]>> ELSE <<>>)
         \o SelectedTableRowsFrom(mm, i + 1)

\* Fault: the rows are taken from the displayed table, not from the base rows.
GetSelectedRows_FromTable(mm) == SelectedTableRowsFrom(mm, 1)

GetSelectedRows(mm) == SelectedFrom(mm, 1)

SelectAll(mm) ==
    LET all == [mm EXCEPT !.selectedRows = @ \cup (0..(Len(mm.baseRows) - 1))]
    IN  IF all.multiSelectMode
        THEN updateTableWithSelectionIndicators(all)
        ELSE all

ClearSelections(mm) ==
    LET none == [mm EXCEPT !.selectedRows = {}]
    IN  IF none.multiSelectMode
        THEN updateTableWithSelectionIndicators(none)
        ELSE none

EnableMultiSelect(mm) ==
    LET newTable == SetCursor(tableNew(mm.table.rows, FixedHeight), mm.table.cursor)
    IN  updateTableWithSelectionIndicators(
            [mm EXCEPT !.multiSelectMode = TRUE, !.table = newTable])

QuitKeys == {"q", "ctrl+c", "esc"}

Msgs == QuitKeys \cup {" ", "a", "enter"} \cup NavKeys \cup OtherMsgs

\* One callback invocation: which callback, and its argument.
Call(cb, arg) == [cb |-> cb, arg |-> arg]

\* The result of one Update: the returned model, the returned command, and the
\* callbacks invoked on the way.
Result(mm, cmd, calls) == [model |-> mm, cmd |-> cmd, calls |-> calls]

\* Fault: the quit key returns no command.
UpdateQuit_NoCmd(mm) == Result(mm, "nil", <<>>)

UpdateQuit(mm) == Result(mm, "Quit", <<>>)

UpdateSpace(mm) ==
    Result(IF mm.multiSelectMode THEN ToggleRow(mm) ELSE mm, "nil", <<>>)

\* Fault: the select-all key is not guarded by the mode.
UpdateA_Unguarded(mm) == Result(SelectAll(mm), "nil", <<>>)

UpdateA(mm) ==
    Result(IF mm.multiSelectMode THEN SelectAll(mm) ELSE mm, "nil", <<>>)

UpdateEnter(mm) ==
    IF mm.multiSelectMode /\ Cardinality(mm.selectedRows) > 0 /\ mm.OnMultiSelect
    THEN Result(mm, "nil", <<Call("OnMultiSelect", GetSelectedRows(mm))>>)
    ELSE IF ~mm.multiSelectMode /\ mm.OnSelect /\ Len(mm.table.rows) > 0
         THEN Result(mm, "nil", <<Call("OnSelect", SelectedRow(mm.table))>>)
         ELSE Result(mm, "nil", <<>>)

UpdateTable(mm, msg) ==
    Result([mm EXCEPT !.table = tableUpdate(@, msg)], "nil", <<>>)

Update(mm, msg) ==
    CASE msg \in QuitKeys -> UpdateQuit(mm)
      [] msg = " "        -> UpdateSpace(mm)
      [] msg = "a"        -> UpdateA(mm)
      [] msg = "enter"    -> UpdateEnter(mm)
      [] OTHER            -> UpdateTable(mm, msg)

(***************************************************************************)
(* Configuration (pkg/config/config.go) over the viper registry.           *)
(*                                                                         *)
(* A settings layer is a function from the keys it defines to their        *)
(* values.  conf.viper is the registry of the running process, conf.disk   *)
(* the configuration file, conf.environ the process environment.          *)
(***************************************************************************)

\* The default viper.SetDefault registers for base_url.
DefaultBaseURL == "https://canvas.instructure.com/api/v1"

\* Values a user gives on the command line, in the file or in the environment.
ConfigValues == {"", "https://canvas.test/api/v1", "http://[::1"}

\* Environment variables of the process that the program reads.
EnvNames == {"CANVAS_BASE_URL", "CANVAS_API_KEY"}

Nil == "<nil>"

Layers(keys) == UNION {[d -> ConfigValues] : d \in SUBSET keys}

\* strings.ToLower of a key, as viper applies it to every key it is given.
ToLower(key) ==
    CASE key = "BASE_URL" -> "base_url"
      [] key = "API_KEY"  -> "api_key"
      [] OTHER            -> key

\* The variable BindEnv binds to a key under SetEnvPrefix("CANVAS").
EnvName(key) ==
    CASE key = "base_url" -> "CANVAS_BASE_URL"
      [] key = "api_key"  -> "CANVAS_API_KEY"
      [] OTHER            -> Nil

\* The layer that defines no key.
EmptyLayer == [k \in {} |-> ""]

viperSetDefault(v, key, value) ==
    [v EXCEPT !.defaults = [k \in DOMAIN v.defaults \cup {ToLower(key)} |->
                                IF k = ToLower(key) THEN value ELSE v.defaults[k]]]

viperSet(v, key, value) ==
    [v EXCEPT !.override = [k \in DOMAIN v.override \cup {ToLower(key)} |->
                                IF k = ToLower(key) THEN value ELSE v.override[k]]]

viperBindEnv(v, key) == [v EXCEPT !.envBound = @ \cup {ToLower(key)}]

\* An empty environment variable counts as unset (AllowEmptyEnv is off).
getEnv(environ, name) ==
    IF name \in DOMAIN environ /\ environ[name] # "" THEN environ[name] ELSE Nil

\* Fault: defaults are consulted before everything else.
viperFind_DefaultsFirst(v, environ, key) ==
    IF key \in DOMAIN v.defaults THEN v.defaults[key]
    ELSE IF key \in DOMAIN v.override THEN v.override[key]
    ELSE IF key \in DOMAIN v.config THEN v.config[key]
    ELSE Nil

\* viper's lookup order: Set, bound environment, file, defaults.
viperFind(v, environ, key) ==
    IF key \in DOMAIN v.override THEN v.override[key]
    ELSE IF key \in v.envBound /\ getEnv(environ, EnvName(key)) # Nil
         THEN getEnv(environ, EnvName(key))
    ELSE IF key \in DOMAIN v.config THEN v.config[key]
    ELSE IF key \in DOMAIN v.defaults THEN v.defaults[key]
    ELSE Nil

\* viper.AllSettings(): every key that has a value, with that value.
AllSettings(v, environ) ==
    LET keys == DOMAIN v.override \cup v.envBound \cup DOMAIN v.config
                    \cup DOMAIN v.defaults
    IN  [k \in {x \in keys : viperFind(v, environ, x) # Nil} |-> viperFind(v, environ, k)]

\* viper.Unmarshal into a zero Config: a field keeps "" unless its key is set.
Unmarshal(v, environ) ==
    LET s == AllSettings(v, environ)
    IN  [APIKey  |-> IF "api_key" \in DOMAIN s THEN s["api_key"] ELSE "",
         BaseURL |-> IF "base_url" \in DOMAIN s THEN s["base_url"] ELSE ""]

\* The file InitConfig looks for: "absent", "malformed" (unreadable) or
\* "settings" with the settings it holds.
Disk(state, settings) == [state |-> state, settings |-> settings]

\* viper.ReadInConfig(): the file layer is replaced by what the file holds.
ReadInConfig(v, disk) ==
    IF disk.state = "settings" THEN [v EXCEPT !.config = disk.settings] ELSE v

\* viper.WriteConfig / SafeWriteConfig: the file gets all current settings.
WriteConfig(v, environ, disk, writeOk) ==
    IF writeOk THEN Disk("settings", AllSettings(v, environ)) ELSE disk

\* InitConfig() of a fresh process; yields the component's whole state.  The
\* registry starts as viper.New(): nothing set, nothing bound, no file read.
InitConfig(environ, disk, writeOk) ==
    LET v  == [override |-> EmptyLayer, envBound |-> {}, config |-> EmptyLayer,
               defaults |-> EmptyLayer]
        v0 == viperSetDefault(v, "base_url", DefaultBaseURL)
        v1 == ReadInConfig(v0, disk)
        d1 == IF disk.state = "absent" THEN WriteConfig(v1, environ, disk, writeOk) ELSE disk
        v2 == viperBindEnv(viperBindEnv(v1, "api_key"), "base_url")
    IN  [viper     |-> v2,
         environ   |-> environ,
         disk      |-> d1,
         AppConfig |-> Unmarshal(v2, environ),
         op        |-> [name |-> "InitConfig"]]

SaveConfig(c, writeOk) ==
    [c EXCEPT !.disk = WriteConfig(c.viper, c.environ, @, writeOk)]

GetConfig(c) == c.AppConfig

\* UpdateConfig(key, value): the state after it, and whether it returned nil.
UpdateConfig(c, key, value, writeOk) ==
    LET v1 == viperSet(c.viper, key, value)
        c1 == [c EXCEPT !.viper = v1, !.AppConfig = Unmarshal(v1, c.environ)]
    IN  [conf |-> SaveConfig(c1, writeOk), ok |-> writeOk]

\* Fault: the API key is printed as it is.
ConfigGetOutput_ShowsKey(c) ==
    [baseURL |-> GetConfig(c).BaseURL, apiKey |-> GetConfig(c).APIKey]

\* What "config get" prints: the base URL and the masked API key.
ConfigGetOutput(c) ==
    [baseURL |-> GetConfig(c).BaseURL,
     apiKey  |-> IF GetConfig(c).APIKey # "" THEN "[set]" ELSE "[not set]"]

\* The configuration of a process started with no file and no environment.
ConfIdle == InitConfig(EmptyLayer, Disk("absent", EmptyLayer), TRUE)

(***************************************************************************)
(* The API client (pkg/api client).                                        *)
(*                                                                         *)
(* Identifiers that the code converts between text and integers are        *)
(* sequences of one-character strings.  A client operation is an operator  *)
(* of the client, its arguments and the responses the server gives to the  *)
(* requests it makes; its result holds the returned error, the returned    *)
(* value and the requests handed to HTTPClient.Do, in order.               *)
(***************************************************************************)

Digits == <<"0", "1", "2", "3", "4", "5", "6", "7", "8", "9">>

\* strconv.Itoa
RECURSIVE Itoa(_)
Itoa(n) ==
    IF n < 0 THEN <<"-">> \o Itoa(-n)
    ELSE IF n < 10 THEN <<Digits[n + 1]>>
    ELSE Itoa(n \div 10) \o <<Digits[(n % 10) + 1]>>

RECURSIVE DigitsValue(_, _)
DigitsValue(s, acc) ==
    IF s = <<>> THEN acc
    ELSE LET digit == (CHOOSE d \in DOMAIN Digits : Digits[d] = Head(s)) - 1
         IN  DigitsValue(Tail(s), acc * 10 + digit)

\* strconv.Atoi: an optional sign, then one or more decimal digits.
Atoi(s) ==
    LET signed == s # <<>> /\ Head(s) \in {"+", "-"}
        body   == IF signed THEN Tail(s) ELSE s
    IN  IF body = <<>> \/ \E i \in DOMAIN body : \A d \in DOMAIN Digits : Digits[d] # body[i]
        THEN [ok |-> FALSE, value |-> 0]
        ELSE [ok |-> TRUE,
              value |-> IF signed /\ Head(s) = "-" THEN -DigitsValue(body, 0)
                        ELSE DigitsValue(body, 0)]

\* ---- errors ----

\* An error value: the messages of its wrap chain, outermost first, and for an
\* API error the status and the body text formatted into it.
NoBody == [json |-> "none", value |-> <<>>]

NoError == [chain |-> <<>>, status |-> 0, body |-> NoBody]

Errorf(prefix) == [chain |-> <<prefix>>, status |-> 0, body |-> NoBody]

APIError(status, body) == [chain |-> <<"API error">>, status |-> status, body |-> body]

\* fmt.Errorf("prefix: %w", err)
Wrap(prefix, err) == [err EXCEPT !.chain = <<prefix>> \o @]

\* ---- the server's side ----

\* Base URLs url.Parse rejects.
InvalidURLs == {"http://[::1"}

\* Base URLs with a scheme and host, which the transport can dial.
AbsoluteURLs == {DefaultBaseURL, "https://canvas.test/api/v1"}

\* The transport failed: no response.
NetError == [kind |-> "neterr", status |-> 0, body |-> NoBody, readOk |-> FALSE]

HttpResponse(status, body, readOk) ==
    [kind |-> "http", status |-> status, body |-> body, readOk |-> readOk]

\* A response body: what kind of JSON text it is, and the records it holds.
JsonArray(items) == [json |-> "array", value |-> items]

JsonObject(item) == [json |-> "object", value |-> <<item>>]

JsonNull == [json |-> "null", value |-> <<>>]

Malformed == [json |-> "malformed", value |-> <<>>]

\* ---- Request and RequestWithBody ----

NewClient(cfg) == [BaseURL |-> cfg.BaseURL, APIKey |-> cfg.APIKey]

\* Fault: every status above 400 is an error, 400 itself is not.
IsErrorStatus_Above400(status) == status > 400

IsErrorStatus(status) == status >= 400

RequestHeaders(c) == {<<"Authorization", "Bearer " \o c.APIKey>>}

\* Fault: the body request sets its content type only.
RequestWithBodyHeaders_NoAuth(c) == {<<"Content-Type", "application/json">>}

RequestWithBodyHeaders(c) ==
    {<<"Authorization", "Bearer " \o c.APIKey>>,
     <<"Content-Type", "application/json">>}

Outcome(err, value, sent) == [err |-> err, value |-> value, sent |-> sent]

\* c.HTTPClient.Do(req) and the handling of its response, common to both
\* request methods.  ReadAll's error is dropped for an error status.
Do(c, req, resp) ==
    IF c.BaseURL \notin AbsoluteURLs \/ resp.kind = "neterr"
    THEN Outcome(Errorf("error sending request"), NoBody, <<req>>)
    ELSE IF IsErrorStatus(resp.status)
    THEN Outcome(APIError(resp.status, resp.body), NoBody, <<req>>)
    ELSE IF ~resp.readOk
    THEN Outcome(Errorf("error reading response"), NoBody, <<req>>)
    ELSE Outcome(NoError, resp.body, <<req>>)

Request(c, method, path, query, resp) ==
    IF c.BaseURL \in InvalidURLs
    THEN Outcome(Errorf("invalid base URL"), NoBody, <<>>)
    ELSE Do(c, [method |-> method, path |-> path, query |-> query,
                headers |-> RequestHeaders(c), hasBody |-> FALSE], resp)

\* The bodies the operations marshal hold strings, booleans and finite numbers,
\* which json.Marshal always encodes.
RequestWithBody(c, method, path, query, resp) ==
    IF c.BaseURL \in InvalidURLs
    THEN Outcome(Errorf("invalid base URL"), NoBody, <<>>)
    ELSE Do(c, [method |-> method, path |-> path, query |-> query,
                headers |-> RequestWithBodyHeaders(c), hasBody |-> TRUE], resp)

\* json.Unmarshal(data, &target) into a zero slice or a zero struct: null
\* leaves the target as it is; other JSON must have the target's shape.
jsonUnmarshal(data, target) ==
    CASE data.json = "null"                         -> [ok |-> TRUE, value |-> <<>>]
      [] data.json = "array" /\ target = "slice"    -> [ok |-> TRUE, value |-> data.value]
      [] data.json = "object" /\ target = "struct"  -> [ok |-> TRUE, value |-> data.value]
      [] OTHER                                      -> [ok |-> FALSE, value |-> <<>>]

\* The shared tail of the decoding operations: pass a request error on, else
\* decode and wrap a decoding error.
Decoded(r, target, prefix) ==
    IF r.err # NoError THEN Outcome(r.err, <<>>, r.sent)
    ELSE LET u == jsonUnmarshal(r.value, target)
         IN  IF u.ok THEN Outcome(NoError, u.value, r.sent)
             ELSE Outcome(Errorf(prefix), <<>>, r.sent)

\* ---- the operations ----

\* The path of a request: the collection, the course it belongs to ("" for
\* none) and the identifier of one member (<<>> for the collection itself).
Path(resource, course, id) == [resource |-> resource, course |-> course, id |-> id]

\* The query parameters of a request; "" or <<>> where a parameter is absent.
Query(include, page, perPage, task) ==
    [include |-> include, page |-> page, per_page |-> perPage, task |-> task]

NoQuery == Query("", <<>>, <<>>, "")

GetCourses(c, resp) ==
    Decoded(Request(c, "GET", Path("courses", "", <<>>), NoQuery, resp),
            "slice", "error parsing courses")

GetAssignments(c, courseID, resp) ==
    Decoded(Request(c, "GET", Path("assignments", courseID, <<>>), NoQuery, resp),
            "slice", "error parsing assignments")

GetUsers(c, courseID, page, perPage, resp) ==
    LET query == Query("email",
                       IF page > 0 THEN Itoa(page) ELSE <<>>,
                       IF perPage > 0 THEN Itoa(perPage) ELSE <<"5", "0">>,
                       "")
    IN  Decoded(Request(c, "GET", Path("users", courseID, <<>>), query, resp),
                "slice", "error parsing users")

GetUserDetails(c, userID, resp) ==
    Decoded(Request(c, "GET", Path("users", "", userID), Query("email", <<>>, <<>>, ""), resp),
            "struct", "error parsing user details")

AddUserToCourse(c, courseID, resp) ==
    Decoded(RequestWithBody(c, "POST", Path("enrollments", courseID, <<>>), NoQuery, resp),
            "struct", "error parsing enrollment response")

GetEnrollments(c, courseID, resp) ==
    Decoded(Request(c, "GET", Path("enrollments", courseID, <<>>), NoQuery, resp),
            "slice", "error parsing enrollments")

RemoveUserFromCourse(c, courseID, enrollmentID, resp) ==
    LET r == Request(c, "DELETE", Path("enrollments", courseID, enrollmentID),
                     Query("", <<>>, <<>>, "delete"), resp)
    IN  Outcome(r.err, <<>>, r.sent)

CreateAssignment(c, courseID, resp) ==
    LET r == RequestWithBody(c, "POST", Path("assignments", courseID, <<>>), NoQuery, resp)
    IN  IF r.err # NoError
        THEN Outcome(Wrap("error creating assignment", r.err), <<>>, r.sent)
        ELSE Decoded(r, "struct", "error parsing assignment response")

\* One enrollment of the listing: its id and its user's id.
Enrollment(id, userID) == [ID |-> id, UserID |-> userID]

\* Fault: the scan keeps the last matching enrollment.
FirstMatch_Last(enrollments, uid) ==
    LET hits == {i \in DOMAIN enrollments : enrollments[i].UserID = uid}
    IN  IF hits = {} THEN 0 ELSE CHOOSE i \in hits : \A j \in hits : j <= i

\* The position at which the scan of RemoveUserByID stops: the first enrollment
\* of the user, 0 for none.
FirstMatch(enrollments, uid) ==
    LET hits == {i \in DOMAIN enrollments : enrollments[i].UserID = uid}
    IN  IF hits = {} THEN 0 ELSE CHOOSE i \in hits : \A j \in hits : i <= j

\* RemoveUserByID: listResp answers the listing, delResp the delete if made.
RemoveUserByID(c, courseID, userID, listResp, delResp) ==
    LET l   == GetEnrollments(c, courseID, listResp)
        uid == Atoi(userID)
        at  == FirstMatch(l.value, uid.value)
    IN  IF l.err # NoError
        THEN Outcome(Wrap("error fetching enrollments", l.err), <<>>, l.sent)
        ELSE IF ~uid.ok
        THEN Outcome(Errorf("invalid user ID"), <<>>, l.sent)
        ELSE IF at = 0
        THEN Outcome(Errorf("no enrollment found for user"), <<>>, l.sent)
        ELSE LET d == RemoveUserFromCourse(c, courseID, Itoa(l.value[at].ID), delResp)
             IN  IF d.err # NoError
                 THEN Outcome(Wrap("error removing enrollment", d.err), <<>>,
                              l.sent \o d.sent)
                 ELSE Outcome(NoError, <<>>, l.sent \o d.sent)

\* ---- the client component's state ----

\* One call of a client operation: its name, its user id argument, the
\* enrollments the course really has, the responses of the server to its first
\* and second request, and what it returned.
NoCall ==
    [op |-> "none", userID |-> <<>>, enrollments |-> <<>>, resp |-> NetError,
     resp2 |-> NetError, result |-> Outcome(NoError, <<>>, <<>>)]

\* No client built yet.
ApiIdle ==
    [built     |-> FALSE,
     client    |-> NewClient([BaseURL |-> "", APIKey |-> ""]),
     builtFrom |-> [BaseURL |-> "", APIKey |-> ""],
     call      |-> NoCall]

\* The course every command of a session works on.
CourseID == "42"

(***************************************************************************)
(* The bulk action on the selected users (MultiActionModel of the users    *)
(* command).                                                               *)
(***************************************************************************)

\* The table row of the user with this id: the id as text, then the name.
UserRow(id) == <<Itoa(id), "user" \o ToString(id)>>

\* The listing the server returns for a user whose removal it treats by the
\* script "ok", "listError", "notEnrolled" or "deleteError".
ScriptListing(script, uid) ==
    CASE script = "listError"   -> NetError
      [] script = "notEnrolled" -> HttpResponse(200, JsonArray(<<Enrollment(100, 5)>>), TRUE)
      [] OTHER                  ->
            HttpResponse(200, JsonArray(<<Enrollment(100, 5), Enrollment(uid + 1000, uid)>>), TRUE)

\* Its answer to the delete.
ScriptDelete(script) ==
    IF script = "deleteError" THEN HttpResponse(404, Malformed, TRUE)
    ELSE HttpResponse(200, JsonObject(Enrollment(100, 5)), TRUE)

\* result is the text the model builds: the count announced, one line per
\* processed row, and the counts of the summary.
NewMultiActionModel(courseID, selectedRows, client) ==
    [courseID      |-> courseID,
     selectedUsers |-> selectedRows,
     choices       |-> <<"Remove all selected users", "Cancel">>,
     cursor        |-> 0,
     client        |-> client,
     completed     |-> FALSE,
     result        |-> [announced |-> 0, lines |-> <<>>, summary |-> <<0, 0>>],
     progress      |-> 0,
     total         |-> 0,
     success       |-> 0,
     failed        |-> 0]

\* One pass of the loop body for row i: the model after it, and the user ids
\* RemoveUserByID has been called with so far.
RemoveRow(st, scripts, i) ==
    LET bm       == st.model
        row      == bm.selectedUsers[i]
        userID   == row[1]
        userName == row[2]
        r        == RemoveUserByID(bm.client, bm.courseID, userID,
                                   ScriptListing(scripts[i], Atoi(userID).value),
                                   ScriptDelete(scripts[i]))
        line     == [mark |-> IF r.err # NoError THEN "Failed to remove" ELSE "Removed",
                     userName |-> userName, userID |-> userID]
    IN  [model |-> [bm EXCEPT !.result.lines = Append(@, line),
                              !.failed = IF r.err # NoError THEN @ + 1 ELSE @,
                              !.success = IF r.err # NoError THEN @ ELSE @ + 1,
                              !.progress = @ + 1],
         attempts |-> Append(st.attempts, userID),
         stopped  |-> r.err # NoError]

\* Fault: an update step removes one row only and returns.
RemoveEach_OneRowPerStep(st, scripts, i) ==
    IF i > Len(st.model.selectedUsers) THEN st ELSE RemoveRow(st, scripts, i)

\* Fault: the loop ends at the first row whose removal fails.
RECURSIVE RemoveEach_StopOnFailure(_, _, _)
RemoveEach_StopOnFailure(st, scripts, i) ==
    IF i > Len(st.model.selectedUsers) \/ st.stopped THEN st
    ELSE RemoveEach_StopOnFailure(RemoveRow(st, scripts, i), scripts, i + 1)

\* for _, row := range m.selectedUsers, from row i on.
RECURSIVE RemoveEach(_, _, _)
RemoveEach(st, scripts, i) ==
    IF i > Len(st.model.selectedUsers) THEN st
    ELSE RemoveEach(RemoveRow(st, scripts, i), scripts, i + 1)

\* enter on the first choice: remove all selected users.
RemoveAll(bm, scripts) ==
    LET total == Len(bm.selectedUsers)
        start == [model |-> [bm EXCEPT !.total = total,
                                       !.result = [announced |-> total, lines |-> <<>>,
                                                   summary |-> <<0, 0>>]],
                  attempts |-> <<>>,
                  stopped  |-> FALSE]
        done  == RemoveEach(start, scripts, 1)
    IN  [model |-> [done.model EXCEPT
                        !.result.summary = <<done.model.success, done.model.total>>,
                        !.completed = TRUE],
         cmd |-> "Quit",
         attempts |-> done.attempts]

\* MultiActionModel.Update
MultiUpdate(bm, msg, scripts) ==
    CASE msg \in QuitKeys -> [model |-> bm, cmd |-> "Quit", attempts |-> <<>>]
      [] msg \in {"up", "k"} ->
            [model |-> [bm EXCEPT !.cursor = IF @ > 0 THEN @ - 1 ELSE @],
             cmd |-> "nil", attempts |-> <<>>]
      [] msg \in {"down", "j"} ->
            [model |-> [bm EXCEPT !.cursor = IF @ < Len(bm.choices) - 1 THEN @ + 1 ELSE @],
             cmd |-> "nil", attempts |-> <<>>]
      [] msg = "enter" ->
            IF bm.cursor = 0 THEN RemoveAll(bm, scripts)
            ELSE [model |-> bm, cmd |-> "Quit", attempts |-> <<>>]
      [] OTHER -> [model |-> bm, cmd |-> "nil", attempts |-> <<>>]

\* MultiActionModel.View: the result text once completed, else the menu with
\* the number of selected users and the cursor.
MultiView(bm) ==
    IF bm.completed
    THEN [screen |-> "result", selected |-> bm.result.announced, cursor |-> 0,
          lines |-> bm.result.lines, summary |-> bm.result.summary]
    ELSE [screen |-> "menu", selected |-> Len(bm.selectedUsers), cursor |-> bm.cursor,
          lines |-> <<>>, summary |-> <<0, 0>>]

\* No bulk action under way.
BulkIdle ==
    [model    |-> NewMultiActionModel(CourseID, <<>>, ApiIdle.client),
     scripts  |-> <<>>,
     attempts |-> <<>>,
     pc       |-> "idle",
     lastMsg  |-> "none"]

(***************************************************************************)
(* A top-level command as a process: cobra validates the arguments, the    *)
(* command's Run function does its remote work, main ends the process.     *)
(***************************************************************************)

\* perPage := 50 in runUsersList.
PerPage == 50

\* Most pages of users the listing is followed through.
MaxPages == 3

\* What the server answers to the request for a page that was asked to hold
\* PerPage users: a failure, or a page of n users.
PageResponses(page) ==
    {NetError, HttpResponse(500, Malformed, TRUE), HttpResponse(200, Malformed, TRUE)}
        \cup {HttpResponse(200, JsonArray([i \in 1..n |-> [ID |-> page * 1000 + i]]), TRUE) :
                    n \in {0, 12, 31, 49, 50, 51}}

\* Fault: the loop goes on until a page comes back empty.
MorePages_UntilEmpty(count, perPage) == count > 0

\* Fault: a full page ends the listing too.
MorePages_OnlyIfOver(count, perPage) == count > perPage

\* The loop goes on unless the page held fewer users than were asked for.
MorePages(count, perPage) == ~(count < perPage)

\* The process of one command.  exit is -1 while the process runs; roster is
\* the number of users the course has where the server serves a fixed roster.
NewCommand(name, argsOk) ==
    [name     |-> name,
     argsOk   |-> argsOk,
     pc       |-> "start",
     client   |-> ApiIdle.client,
     page     |-> 1,
     allUsers |-> <<>>,
     fetched  |-> <<>>,
     requests |-> <<>>,
     failed   |-> FALSE,
     stderr   |-> <<>>,
     stdout   |-> <<>>,
     exit     |-> -1,
     roster   |-> 0]

CmdIdle == NewCommand("none", TRUE)

\* fmt.Fprintf(os.Stderr, ...); return -- after a failed remote operation.
ReportAndReturn(c, message, sent) ==
    [c EXCEPT !.stderr = Append(@, message),
              !.failed = TRUE,
              !.requests = @ \o sent,
              !.pc = "returned"]

(***************************************************************************)
(* The assignment detail view (AssignmentDetailModel, assignments.go).     *)
(***************************************************************************)

\* m.assignment == nil
NoAssignment == [ID |-> 0, Name |-> Nil]

\* The content formatAssignmentDetails builds: the record's fields, laid out
\* for the width the model has at that moment.
formatAssignmentDetails(dm) ==
    [title |-> dm.assignment.Name, id |-> dm.assignment.ID, valueWidth |-> dm.width - 24]

NoContent == [title |-> Nil, id |-> 0, valueWidth |-> 0]

\* viewport.New(width, height)
viewportNew(width, height) == [Width |-> width, Height |-> height, content |-> NoContent]

NewAssignmentDetailModel(courseID, assignmentID) ==
    [assignment   |-> NoAssignment,
     viewport     |-> viewportNew(0, 0),
     ready        |-> FALSE,
     width        |-> 0,
     height       |-> 0,
     courseID     |-> courseID,
     assignmentID |-> assignmentID]

\* Update yields the model and the command.  Case tea.KeyMsg "esc", "q",
\* "enter":
UpdateDetailQuit(dm) == [model |-> dm, command |-> "Quit"]

\* Fault: a window size lays the viewport out and leaves its content alone.
UpdateDetailWindowSize_NoContent(dm, size) ==
    LET d1 == [dm EXCEPT !.height = size[2], !.width = size[1]]
    IN  [model   |-> IF ~d1.ready
                     THEN [d1 EXCEPT !.viewport = viewportNew(d1.width, d1.height - 4),
                                     !.ready = TRUE]
                     ELSE [d1 EXCEPT !.viewport.Width = size[1],
                                     !.viewport.Height = size[2] - 4],
         command |-> "nil"]

\* Update, case tea.WindowSizeMsg.
UpdateDetailWindowSize(dm, size) ==
    LET d1 == [dm EXCEPT !.height = size[2], !.width = size[1]]
        d2 == IF ~d1.ready
              THEN [d1 EXCEPT !.viewport = viewportNew(d1.width, d1.height - 4),
                              !.ready = TRUE]
              ELSE [d1 EXCEPT !.viewport.Width = size[1],
                              !.viewport.Height = size[2] - 4]
    IN  [model   |-> IF d2.assignment # NoAssignment
                     THEN [d2 EXCEPT !.viewport.content = formatAssignmentDetails(d2)]
                     ELSE d2,
         command |-> "nil"]

\* Update, case AssignmentDetailLoadedMsg.
UpdateDetailLoaded(dm, assignment) ==
    LET d1 == [dm EXCEPT !.assignment = assignment]
    IN  [model   |-> IF d1.ready
                     THEN [d1 EXCEPT !.viewport.content = formatAssignmentDetails(d1)]
                     ELSE d1,
         command |-> "nil"]

\* Update, any other message: it goes to the viewport once that exists, which
\* scrolls within the content it holds.
UpdateDetailOther(dm) == [model |-> dm, command |-> "nil"]

\* Fault: a failed fetch leaves the view open.
UpdateDetailError_Stays(dm) == [model |-> dm, command |-> "nil"]

\* Update, case AssignmentDetailErrorMsg.
UpdateDetailError(dm) == [model |-> dm, command |-> "Quit"]

\* What View renders: which screen, and on the detail screen the content.
DetailView(dm) ==
    IF ~dm.ready THEN [screen |-> "Loading...", content |-> NoContent]
    ELSE IF dm.assignment = NoAssignment
    THEN [screen |-> "Error loading assignment details", content |-> NoContent]
    ELSE [screen |-> "Assignment Details", content |-> dm.viewport.content]

\* The view before its program runs.  fetch: "none", "inflight", "loaded" or
\* "error"; fetches counts the fetches issued; shown records whether a render
\* ever showed the detail screen; first which of the window size and the fetch
\* result was processed first.
DetailIdle ==
    [model   |-> NewAssignmentDetailModel(CourseID, <<"1", "1">>),
     pc      |-> "idle",
     fetch   |-> "none",
     fetches |-> 0,
     record  |-> NoAssignment,
     shown   |-> FALSE,
     first   |-> "none",
     lastMsg |-> "none"]

(***************************************************************************)
(* "assignments add": the form (runAssignmentsAdd) and the request body    *)
(* CreateAssignment builds from the assignment.                            *)
(*                                                                         *)
(* A time is <<year, month, day, hour, minute>>; points are in tenths.     *)
(***************************************************************************)

\* time.Time{}: the zero time.
ZeroTime == <<1, 1, 1, 0, 0>>

\* time.Parse("2006-01-02 15:04", s): the time, or an error and the zero time.
timeParse(s) ==
    CASE s = "2025-01-15 10:00" -> [ok |-> TRUE, value |-> <<2025, 1, 15, 10, 0>>]
      [] s = "2025-02-01 23:59" -> [ok |-> TRUE, value |-> <<2025, 2, 1, 23, 59>>]
      [] OTHER                  -> [ok |-> FALSE, value |-> ZeroTime]

\* t.Format(time.RFC3339) of a UTC time.
FormatRFC3339(t) ==
    CASE t = ZeroTime                 -> "0001-01-01T00:00:00Z"
      [] t = <<2025, 1, 15, 10, 0>>   -> "2025-01-15T10:00:00Z"
      [] t = <<2025, 2, 1, 23, 59>>   -> "2025-02-01T23:59:00Z"

\* strconv.ParseFloat(s, 64)
ParseFloat(s) ==
    CASE s = "100" -> [ok |-> TRUE, value |-> 1000]
      [] s = "7.5" -> [ok |-> TRUE, value |-> 75]
      [] s = "-1"  -> [ok |-> TRUE, value |-> -10]
      [] OTHER     -> [ok |-> FALSE, value |-> 0]

\* The fields of the form that take text, in form order.
FormFields == <<"Name", "Points Possible", "Due Date", "Unlock Date", "Lock Date">>

\* The Validate function of a field applied to its text s: whether it returned
\* nil, and the form data after it.
Validate(field, s, data) ==
    CASE field = "Name" -> [ok |-> s # "", data |-> data]
      [] field = "Points Possible" ->
            IF s = "" THEN [ok |-> TRUE, data |-> data]
            ELSE IF ~ParseFloat(s).ok \/ ParseFloat(s).value < 0
            THEN [ok |-> FALSE, data |-> data]
            ELSE [ok |-> TRUE, data |-> [data EXCEPT !.PointsPossible = ParseFloat(s).value]]
      [] field = "Due Date" ->
            IF s = "" THEN [ok |-> TRUE, data |-> data]
            ELSE IF ~timeParse(s).ok THEN [ok |-> FALSE, data |-> data]
            ELSE [ok |-> TRUE, data |-> [data EXCEPT !.DueDate = s]]
      [] field = "Unlock Date" ->
            IF s = "" THEN [ok |-> TRUE, data |-> data]
            ELSE IF ~timeParse(s).ok THEN [ok |-> FALSE, data |-> data]
            ELSE [ok |-> TRUE, data |-> [data EXCEPT !.UnlockDate = s]]
      [] field = "Lock Date" ->
            IF s = "" THEN [ok |-> TRUE, data |-> data]
            ELSE IF ~timeParse(s).ok THEN [ok |-> FALSE, data |-> data]
            ELSE [ok |-> TRUE, data |-> [data EXCEPT !.LockDate = s]]

\* The api.Assignment runAssignmentsAdd builds from the form data.
NewAssignment(data) ==
    [Name           |-> data.Name,
     PointsPossible |-> data.PointsPossible,
     DueAt          |-> IF data.DueDate # "" THEN timeParse(data.DueDate).value ELSE ZeroTime,
     UnlockAt       |-> IF data.UnlockDate # "" THEN timeParse(data.UnlockDate).value
                        ELSE ZeroTime,
     LockAt         |-> IF data.LockDate # "" THEN timeParse(data.LockDate).value
                        ELSE ZeroTime]

\* The "assignment" envelope of the request body CreateAssignment marshals:
\* its keys and their JSON values (numbers as their text).
AssignmentEnvelope(a) ==
    LET keys == {"name", "points_possible", "due_at"}
                    \cup (IF a.UnlockAt # ZeroTime THEN {"unlock_at"} ELSE {})
                    \cup (IF a.LockAt # ZeroTime THEN {"lock_at"} ELSE {})
    IN  [k \in keys |->
            CASE k = "name"            -> a.Name
              [] k = "points_possible" -> ToString(a.PointsPossible)
              [] k = "due_at"          -> FormatRFC3339(a.DueAt)
              [] k = "unlock_at"       -> FormatRFC3339(a.UnlockAt)
              [] k = "lock_at"         -> FormatRFC3339(a.LockAt)]

\* The form before it runs: the texts of its fields, the focused field, the
\* AssignmentForm the validators write, and after submission the assignment
\* and the envelope sent.
FormIdle ==
    [texts    |-> [f \in 1..Len(FormFields) |-> ""],
     focus    |-> 1,
     data     |-> [Name |-> "", PointsPossible |-> 0, DueDate |-> "", UnlockDate |-> "",
                   LockDate |-> ""],
     pc       |-> "idle",
     envelope |-> [k \in {} |-> ""],
     result   |-> Outcome(NoError, <<>>, <<>>),
     lastKey  |-> "none"]

(***************************************************************************)
(* The interactive configuration form (ConfigModel, pkg/cmd/config.go).    *)
(*                                                                         *)
(* An update yields the model, the command, the configuration component    *)
(* after the calls of UpdateConfig it made, and the keys it wrote, in      *)
(* order.                                                                  *)
(***************************************************************************)

\* textinput.New() with SetValue(value); Focus() for the focused one.
textinputNew(value, focus) == [value |-> value, focus |-> focus]

\* runConfig: the model built from the current configuration.
NewConfigModel(cfg) ==
    [inputs     |-> <<textinputNew(cfg.BaseURL, TRUE), textinputNew(cfg.APIKey, FALSE)>>,
     focusIndex |-> 0,
     done       |-> FALSE,
     err        |-> FALSE]

\* Focus() on the input at focusIndex, Blur() on the others.
FocusInputs(cm) ==
    [cm EXCEPT !.inputs = [i \in DOMAIN cm.inputs |->
                              [cm.inputs[i] EXCEPT !.focus = (i - 1 = cm.focusIndex)]]]

\* Fault: the focus index runs off the ends instead of wrapping.
ConfigCycle_NoWrap(cm, key) ==
    FocusInputs([cm EXCEPT !.focusIndex = IF key \in {"up", "shift+tab"} THEN @ - 1
                                          ELSE @ + 1])

\* Update, case "tab", "shift+tab", "up", "down".
ConfigCycle(cm, key) ==
    LET n == Len(cm.inputs)
    IN  FocusInputs([cm EXCEPT !.focusIndex =
                        IF key \in {"up", "shift+tab"}
                        THEN (IF @ - 1 < 0 THEN n - 1 ELSE @ - 1)
                        ELSE (IF @ + 1 >= n THEN 0 ELSE @ + 1)])

\* Update, case "enter"; w1 and w2 tell whether the file writes succeed.
ConfigEnter(cm, c, w1, w2) ==
    IF cm.focusIndex = Len(cm.inputs) - 1
    THEN LET u1 == UpdateConfig(c, "base_url", cm.inputs[1].value, w1)
             u2 == UpdateConfig(u1.conf, "api_key", cm.inputs[2].value, w2)
         IN  IF ~u1.ok
             THEN [model |-> [cm EXCEPT !.err = TRUE], cmd |-> "nil", conf |-> u1.conf,
                   writes |-> <<"base_url">>]
             ELSE IF ~u2.ok
             THEN [model |-> [cm EXCEPT !.err = TRUE], cmd |-> "nil", conf |-> u2.conf,
                   writes |-> <<"base_url", "api_key">>]
             ELSE [model |-> [cm EXCEPT !.done = TRUE], cmd |-> "Quit", conf |-> u2.conf,
                   writes |-> <<"base_url", "api_key">>]
    ELSE [model |-> FocusInputs([cm EXCEPT !.focusIndex = @ + 1]), cmd |-> "Batch",
          conf |-> c, writes |-> <<>>]

\* updateInputs: every input gets the message, the focused ones take the text
\* it leaves them with.
updateInputs(cm, text) ==
    [cm EXCEPT !.inputs = [i \in DOMAIN cm.inputs |->
                              IF cm.inputs[i].focus THEN [cm.inputs[i] EXCEPT !.value = text]
                              ELSE cm.inputs[i]]]

\* ConfigModel.Update for a key; text is what other keys leave in an input.
ConfigUpdate(cm, key, text, c, w1, w2) ==
    CASE key \in {"ctrl+c", "esc"} ->
            [model |-> cm, cmd |-> "Quit", conf |-> c, writes |-> <<>>]
      [] key \in {"tab", "shift+tab", "up", "down"} ->
            [model |-> ConfigCycle(cm, key), cmd |-> "Batch", conf |-> c, writes |-> <<>>]
      [] key = "enter" -> ConfigEnter(cm, c, w1, w2)
      [] OTHER ->
            [model |-> updateInputs(cm, text), cmd |-> "Batch", conf |-> c, writes |-> <<>>]

\* ConfigModel.View: which screen it renders.
ConfigView(cm) ==
    IF cm.done THEN "Configuration saved successfully!"
    ELSE IF cm.err THEN "Error"
    ELSE "form"

\* The form before runConfig; writes holds the keys the last update wrote.
CFormIdle ==
    [model   |-> NewConfigModel([BaseURL |-> "", APIKey |-> ""]),
     pc      |-> "idle",
     writes  |-> <<>>,
     lastKey |-> "none"]

(***************************************************************************)
(* "assignments list" (runAssignmentsList): the table program of the       *)
(* listing, whose OnSelect callback runs the detail view and then          *)
(* runAssignmentsList again, all inside the Update call that invoked it.   *)
(***************************************************************************)

\* Nesting depth up to which listings are followed.
MaxNesting == 2

\* The rows built from the fetched assignments: the id ("%d") and name cells.
AssignmentRows(assignments) ==
    [i \in DOMAIN assignments |-> <<Itoa(assignments[i].ID), assignments[i].Name>>]

\* The TableModel runAssignmentsList runs: a fresh table, OnSelect set.
NewListModel(assignments) ==
    [NewTableModel(tableNew(AssignmentRows(assignments), CallerHeight))
        EXCEPT !.OnSelect = TRUE]

\* A table program whose Update is inside OnSelect: its model, and the key its
\* input reader has taken from the terminal meanwhile ("none" if none); the
\* reader holds one message until the event loop accepts it.
Suspended(mm, stolen) == [model |-> mm, stolen |-> stolen]

\* The command before it starts: the program in the foreground (pc), its
\* TableModel when that is a listing, the key it has still to process, and
\* the suspended table programs, the innermost last.
SessIdle ==
    [pc      |-> "idle",
     list    |-> NewListModel(<<>>),
     pending |-> "none",
     stack   |-> <<>>,
     last    |-> "none",
     lastKey |-> "none"]

\* A call of runAssignmentsList returns: the command ends if it was cobra's
\* call; otherwise OnSelect returns, Update returns (m, nil) and the program
\* that was suspended goes on with its model and with the key its reader holds.
ListReturns(s) ==
    IF s.stack = <<>>
    THEN [s EXCEPT !.pc = "returned", !.pending = "none"]
    ELSE [s EXCEPT !.pc = "list",
                   !.list = s.stack[Len(s.stack)].model,
                   !.pending = s.stack[Len(s.stack)].stolen,
                   !.stack = SubSeq(@, 1, Len(@) - 1)]

(***************************************************************************)
(* The program: construction, set-up calls, then the interactive session   *)
(***************************************************************************)

Init ==
    /\ \E n \in 0..MaxRows : m = NewTableModel(tableNew(RowsOf(n), CallerHeight))
    /\ pc = "setup"
    /\ clampSwaps \in BOOLEAN
    /\ invoked = <<>>
    /\ committed = FALSE
    /\ lastOp = "NewTableModel"
    /\ toggles = [i \in Idx |-> 0]
    /\ conf = ConfIdle
    /\ api = ApiIdle
    /\ bulk = BulkIdle
    /\ proc = CmdIdle
    /\ detail = DetailIdle
    /\ form = FormIdle
    /\ cform = CFormIdle
    /\ sess = SessIdle

\* A method called on the model before the program is run.
Called(mm, op) ==
    /\ pc = "setup"
    /\ m' = mm
    /\ lastOp' = op
    /\ invoked' = <<>>
    /\ UNCHANGED <<pc, clampSwaps, committed>>
    /\ UNCHANGED otherVars

CallToggleRow == Called(ToggleRow(m), "ToggleRow") /\ UNCHANGED toggles

CallSelectAll == Called(SelectAll(m), "SelectAll") /\ UNCHANGED toggles

CallClearSelections == Called(ClearSelections(m), "ClearSelections") /\ UNCHANGED toggles

CallEnableMultiSelect == Called(EnableMultiSelect(m), "EnableMultiSelect") /\ UNCHANGED toggles

SetOnSelect ==
    /\ ~m.OnSelect
    /\ Called([m EXCEPT !.OnSelect = TRUE], "SetOnSelect")
    /\ UNCHANGED toggles

SetOnMultiSelect ==
    /\ ~m.OnMultiSelect
    /\ Called([m EXCEPT !.OnMultiSelect = TRUE], "SetOnMultiSelect")
    /\ UNCHANGED toggles

\* tea.NewProgram(m).Run()
Run ==
    /\ pc = "setup"
    /\ pc' = "running"
    /\ lastOp' = "Run"
    /\ invoked' = <<>>
    /\ UNCHANGED <<m, clampSwaps, committed, toggles>>
    /\ UNCHANGED otherVars

\* The session processes one message: the program keeps the returned model and
\* ends when the returned command is tea.Quit.
Process(msg) ==
    /\ pc = "running"
    /\ LET r == Update(m, msg)
       IN  /\ m' = r.model
           /\ invoked' = r.calls
           /\ committed' = (committed \/ r.calls # <<>>)
           /\ pc' = IF r.cmd = "Quit" THEN "quit" ELSE "running"
    /\ lastOp' = msg
    /\ UNCHANGED clampSwaps
    /\ UNCHANGED otherVars

KeyQuit == \E k \in QuitKeys : Process(k) /\ UNCHANGED toggles

KeySpace == Process(" ") /\ UNCHANGED toggles

KeyA == Process("a") /\ UNCHANGED toggles

KeyEnter == Process("enter") /\ UNCHANGED toggles

KeyNav == \E k \in NavKeys : Process(k) /\ UNCHANGED toggles

OtherMsg == \E k \in OtherMsgs : Process(k) /\ UNCHANGED toggles

Next ==
    \/ CallToggleRow
    \/ CallSelectAll
    \/ CallClearSelections
    \/ CallEnableMultiSelect
    \/ SetOnSelect
    \/ SetOnMultiSelect
    \/ Run
    \/ KeyQuit
    \/ KeySpace
    \/ KeyA
    \/ KeyEnter
    \/ KeyNav
    \/ OtherMsg

Spec == Init /\ [][Next]_vars

(***************************************************************************)
(* Toggle histories: ToggleRow calls and toggle keys interleaved with      *)
(* cursor movements, each toggle counted against the index it acted on.    *)
(***************************************************************************)

CountToggle(index) ==
    /\ toggles[index] < MaxToggles
    /\ toggles' = [toggles EXCEPT ![index] = @ + 1]

CountedCallToggleRow ==
    /\ Called(ToggleRow(m), "ToggleRow")
    /\ CountToggle(m.table.cursor)

CountedKeySpace ==
    /\ Process(" ")
    /\ IF m.multiSelectMode THEN CountToggle(m.table.cursor) ELSE UNCHANGED toggles

NextToggle ==
    \/ CountedCallToggleRow
    \/ CallEnableMultiSelect
    \/ Run
    \/ CountedKeySpace
    \/ KeyNav

SpecToggle == Init /\ [][NextToggle]_vars

(***************************************************************************)
(* Properties                                                              *)
(***************************************************************************)

rowCount == Len(m.baseRows)

cursor == m.table.cursor

RowIndices == 0..(rowCount - 1)

Range(s) == {s[i] : i \in DOMAIN s}

\* C1: in MultiSelect mode the commit key invokes the multi-selection callback,
\* with exactly GetSelectedRows(), iff the Selection Set is non-empty and the
\* callback is set; otherwise, and whenever the row sequence is empty, it invokes
\* nothing; the single-selection callback is never invoked in MultiSelect mode.
C1_MultiCommit ==
    (pc = "running" /\ lastOp = "enter" /\ m.multiSelectMode) =>
        /\ invoked = IF m.selectedRows # {} /\ m.OnMultiSelect
                     THEN <<Call("OnMultiSelect", GetSelectedRows(m))>>
                     ELSE <<>>
        /\ rowCount = 0 => invoked = <<>>

\* C2: in SingleSelect mode with the callback set and rowCount > 0, commit invokes
\* the single-selection callback exactly once, with the row at the cursor's index
\* at that moment, whatever the cursor's history.
C2_SingleCommit ==
    (pc = "running" /\ lastOp = "enter" /\ ~m.multiSelectMode /\ m.OnSelect
        /\ rowCount > 0) =>
        invoked = <<Call("OnSelect", m.baseRows[cursor + 1])>>

C2_Witness ==
    /\ pc = "running" /\ lastOp = "enter" /\ ~m.multiSelectMode /\ m.OnSelect
    /\ rowCount >= 3 /\ cursor = 1
    /\ Len(invoked) = 1

\* C3: after any sequence of ToggleRow calls interleaved with cursor movements,
\* the row of index i is in GetSelectedRows() exactly when i has been toggled an
\* odd number of times.
C3_ToggleParity ==
    \A i \in RowIndices :
        (m.baseRows[i + 1] \in Range(GetSelectedRows(m))) <=> (toggles[i] % 2 = 1)

C3_Witness ==
    /\ rowCount >= 3
    /\ toggles[0] = 2 /\ toggles[1] = 1 /\ toggles[2] = 0
    /\ cursor = 2

\* The k-th smallest (k from 1) element of a finite set of integers.
KthSmallest(S, k) == CHOOSE x \in S : Cardinality({y \in S : y < x}) = k - 1

\* The base rows whose index is in the Selection Set, by ascending index.
RowsInSelection ==
    LET S == m.selectedRows \cap RowIndices
    IN  [k \in 1..Cardinality(S) |-> m.baseRows[KthSmallest(S, k) + 1]]

\* C4: GetSelectedRows() is exactly the original rows whose index is in the
\* Selection Set, in ascending row order; after SelectAll it is every row, after
\* ClearSelections it is empty.
C4_SelectedRowsInOrder ==
    /\ GetSelectedRows(m) = RowsInSelection
    /\ (lastOp = "SelectAll" \/ (lastOp = "a" /\ m.multiSelectMode)) =>
            GetSelectedRows(m) = m.baseRows
    /\ lastOp = "ClearSelections" => GetSelectedRows(m) = <<>>

\* Row 2 was selected before row 0: selection order differs from row order.
C4_Witness ==
    /\ rowCount >= 3 /\ m.selectedRows = {0, 2}
    /\ lastOp = " " /\ cursor = 0
    /\ GetSelectedRows(m) = <<m.baseRows[1], m.baseRows[3]>>

\* C5: for every row count, zero included, every index in the Selection Set lies
\* in [0, rowCount).
C5_SelectionInRange == m.selectedRows \subseteq RowIndices

\* C6: when rowCount > 0 the cursor is in [0, rowCount) after every event in
\* either mode; up from 0 stays at 0, down from rowCount-1 stays there, and a
\* single up or down otherwise moves it by exactly one.
C6_CursorClamped ==
    /\ [](rowCount > 0 => cursor \in RowIndices)
    /\ [][(rowCount > 0 /\ pc = "running") =>
            /\ lastOp' \in {"up", "k"} =>
                    cursor' = IF cursor = 0 THEN 0 ELSE cursor - 1
            /\ lastOp' \in {"down", "j"} =>
                    cursor' = IF cursor = rowCount - 1 THEN cursor ELSE cursor + 1]_vars

C6_Witness ==
    /\ rowCount >= 2 /\ m.multiSelectMode /\ m.selectedRows # {}
    /\ lastOp = "down" /\ cursor = rowCount - 1

\* C7: in MultiSelect mode the table that View renders shows a checkmark in the
\* indicator cell of row i exactly when i is in the Selection Set, after every
\* processed event.
C7_IndicatorsAgree ==
    m.multiSelectMode =>
        /\ Len(m.table.rows) = rowCount
        /\ \A i \in RowIndices :
                (m.table.rows[i + 1][1] = CheckMark) <=> IsRowSelected(m, i)

C7_Witness ==
    /\ pc = "running" /\ m.multiSelectMode /\ lastOp = " "
    /\ rowCount >= 3 /\ m.selectedRows = {1}

\* C8: outside MultiSelect mode a ToggleRow() call leaves the Selection Set as it was.
C8_ToggleRowNoOpOutsideMulti ==
    [][(lastOp' = "ToggleRow" /\ ~m.multiSelectMode) =>
            m'.selectedRows = m.selectedRows]_vars

\* C9: a quit key ends the session at once: the update returns the quit command,
\* no callback is invoked, and the cursor and the Selection Set are unchanged;
\* an ended session processes nothing more.
C9_QuitEndsSession ==
    /\ [][lastOp' \in QuitKeys =>
            /\ pc' = "quit"
            /\ invoked' = <<>>
            /\ m'.table.cursor = cursor
            /\ m'.selectedRows = m.selectedRows]_vars
    /\ [][pc # "quit"]_vars

C9_Witness ==
    /\ pc = "quit" /\ lastOp = "esc"
    /\ m.multiSelectMode /\ m.selectedRows # {} /\ cursor > 0

\* C10: once a commit has invoked its callback the session has ended: the table
\* processes no further input.
C10_CommitEndsSession == committed => pc = "quit"

\* C11: the stored base rows stay cell-for-cell the rows the table was built
\* with, and every row handed to the multi-selection callback is one of them,
\* with the original column count (no indicator cell).
C11_BaseRowsIntact ==
    /\ m.baseRows = RowsOf(rowCount)
    /\ \A i \in DOMAIN invoked :
          invoked[i].cb = "OnMultiSelect" =>
              \A j \in DOMAIN invoked[i].arg :
                  /\ invoked[i].arg[j] \in Range(RowsOf(rowCount))
                  /\ Len(invoked[i].arg[j]) = Len(RowOf(0))

C11_Witness ==
    /\ pc = "running" /\ lastOp = "enter" /\ m.multiSelectMode
    /\ Len(invoked) = 1 /\ invoked[1].cb = "OnMultiSelect"
    /\ Len(invoked[1].arg) = 2 /\ rowCount >= 3

\* C20: in SingleSelect mode the toggle key and the select-all key change
\* neither the Selection Set, the cursor nor the mode, and invoke no callback.
C20_SingleModeKeysInert ==
    [][(pc = "running" /\ ~m.multiSelectMode /\ lastOp' \in {" ", "a"}) =>
            /\ m' = m
            /\ invoked' = <<>>
            /\ pc' = "running"]_vars

C20_Witness ==
    /\ pc = "running" /\ ~m.multiSelectMode /\ lastOp = "a"
    /\ rowCount >= 2 /\ cursor = 1 /\ m.selectedRows = {0}

\* C29: when rowCount > 0, ToggleRow, SelectAll, ClearSelections and
\* EnableMultiSelect leave the cursor index unchanged: applied to the model of
\* any reachable state (every cursor position, every Selection Set, either
\* mode) each returns a model whose table has the same cursor, and every step
\* that calls one of them, directly or through the toggle and select-all
\* keys, keeps the cursor.
C29_SelectionOpsKeepCursor ==
    /\ [](rowCount > 0 =>
            /\ ToggleRow(m).table.cursor = cursor
            /\ SelectAll(m).table.cursor = cursor
            /\ ClearSelections(m).table.cursor = cursor
            /\ EnableMultiSelect(m).table.cursor = cursor)
    /\ [][(rowCount > 0 /\ lastOp' \in {"ToggleRow", "SelectAll", "ClearSelections",
                                        "EnableMultiSelect", " ", "a"}) =>
            m'.table.cursor = m.table.cursor]_vars

C29_Witness ==
    /\ pc = "running" /\ m.multiSelectMode /\ lastOp = " "
    /\ rowCount >= 3 /\ cursor = 2 /\ m.selectedRows = {0, 2}
    /\ m.table.rows[3][1] = CheckMark /\ m.table.height = FixedHeight

(***************************************************************************)
(* The configuration commands: every process starts with InitConfig        *)
(* (root.go:18), then runs "config set" or "config get".                   *)
(***************************************************************************)

\* The table component while another component is exercised.
TableIdle ==
    /\ m = NewTableModel(tableNew(RowsOf(0), CallerHeight))
    /\ pc = "setup"
    /\ clampSwaps = FALSE
    /\ invoked = <<>>
    /\ committed = FALSE
    /\ lastOp = "NewTableModel"
    /\ toggles = [i \in Idx |-> 0]

InitConf ==
    /\ TableIdle
    /\ sess = SessIdle
    /\ cform = CFormIdle
    /\ form = FormIdle
    /\ \E environ \in Layers(EnvNames), writeOk \in BOOLEAN :
          \E disk \in {Disk("absent", EmptyLayer), Disk("malformed", EmptyLayer)}
                        \cup {Disk("settings", l) : l \in Layers({"base_url", "api_key"})} :
              conf = InitConfig(environ, disk, writeOk)
    /\ api = ApiIdle
    /\ bulk = BulkIdle
    /\ proc = CmdIdle
    /\ detail = DetailIdle

\* A new process of the program: the registry is rebuilt from the file the
\* last process left and from the new environment.
StartProcess ==
    /\ \E environ \in Layers(EnvNames), writeOk \in BOOLEAN :
          conf' = InitConfig(environ, conf.disk, writeOk)
    /\ UNCHANGED <<tableVars, api, bulk, proc, detail, form, cform, sess>>

\* "config set key value"; viper keys are case-insensitive.
ConfigSet ==
    /\ \E key \in {"base_url", "BASE_URL", "api_key"}, value \in ConfigValues, writeOk \in BOOLEAN :
          LET r == UpdateConfig(conf, key, value, writeOk)
          IN  conf' = [r.conf EXCEPT !.op = [name |-> "UpdateConfig", key |-> key,
                                             value |-> value, ok |-> r.ok]]
    /\ UNCHANGED <<tableVars, api, bulk, proc, detail, form, cform, sess>>

\* "config get"
ConfigGet ==
    /\ conf' = [conf EXCEPT !.op = [name |-> "config get",
                                    out |-> ConfigGetOutput(conf)]]
    /\ UNCHANGED <<tableVars, api, bulk, proc, detail, form, cform, sess>>

NextConf ==
    \/ StartProcess
    \/ ConfigSet
    \/ ConfigGet

SpecConf == InitConf /\ [][NextConf]_vars

\* No source of this process defines api_key: not Set, not the file that was
\* read, not the environment.
ApiKeyNeverSet ==
    /\ "api_key" \notin DOMAIN conf.viper.override
    /\ "api_key" \notin DOMAIN conf.viper.config
    /\ "CANVAS_API_KEY" \notin DOMAIN conf.environ

\* C19: after UpdateConfig("base_url", v) succeeds GetConfig returns BaseURL = v
\* verbatim; and while api_key has never been set GetConfig returns an empty
\* API key, which config get reports as not set.
C19_ConfigRoundTrip ==
    /\ (conf.op.name = "UpdateConfig" /\ conf.op.key = "base_url" /\ conf.op.ok) =>
            GetConfig(conf).BaseURL = conf.op.value
    /\ ApiKeyNeverSet =>
            /\ GetConfig(conf).APIKey = ""
            /\ ConfigGetOutput(conf).apiKey = "[not set]"
    /\ conf.op.name = "config get" => conf.op.out = ConfigGetOutput(conf)

C19_Witness ==
    /\ conf.op.name = "UpdateConfig" /\ conf.op.key = "base_url" /\ conf.op.ok
    /\ conf.op.value = "https://canvas.test/api/v1"
    /\ "CANVAS_BASE_URL" \in DOMAIN conf.environ
    /\ conf.environ["CANVAS_BASE_URL"] = "http://[::1"
    /\ "base_url" \in DOMAIN conf.viper.config
    /\ ApiKeyNeverSet
    /\ conf.disk = Disk("settings", AllSettings(conf.viper, conf.environ))

\* "config get" run by a process just started, for every environment and
\* every configuration file: the configuration it read and what it printed.
FirstRuns ==
    {[cfg |-> GetConfig(c), out |-> ConfigGetOutput(c)] :
        c \in {InitConfig(environ, disk, TRUE) :
                  environ \in Layers(EnvNames),
                  disk \in {Disk("absent", EmptyLayer), Disk("malformed", EmptyLayer)}
                            \cup {Disk("settings", l) : l \in Layers({"base_url", "api_key"})}}}

\* C30: the output of "config get" depends on the API key only through
\* whether it is empty: a run with a non-empty key prints what every other run
\* with the same base URL and a non-empty key prints, and its API key line is
\* the fixed marker, not the key.
C30_KeyMasked ==
    (conf.op.name = "config get" /\ conf.AppConfig.APIKey # "") =>
        /\ \A r \in FirstRuns :
              (r.cfg.BaseURL = conf.AppConfig.BaseURL /\ r.cfg.APIKey # "") =>
                  r.out = conf.op.out
        /\ conf.op.out.apiKey = "[set]"
        /\ conf.op.out.baseURL = conf.AppConfig.BaseURL

C30_Witness ==
    /\ conf.op.name = "config get"
    /\ conf.AppConfig.APIKey = "http://[::1"
    /\ conf.AppConfig.BaseURL = DefaultBaseURL
    /\ \E r \in FirstRuns :
          /\ r.cfg.BaseURL = conf.AppConfig.BaseURL
          /\ r.cfg.APIKey = "https://canvas.test/api/v1"
          /\ r.out = conf.op.out


(***************************************************************************)
(* The client at work: a command builds a client from the configuration    *)
(* and calls its operations; the server answers as it pleases.             *)
(***************************************************************************)

\* Longest enrollment listing a course returns.
MaxEnrollments == 2

\* The record every generic response body holds.
SomeRecord == Enrollment(100, 5)

\* Responses of the server to one request.
Responses ==
    {NetError,
     HttpResponse(200, JsonArray(<<SomeRecord>>), TRUE),
     HttpResponse(200, JsonObject(SomeRecord), TRUE),
     HttpResponse(200, JsonNull, TRUE),
     HttpResponse(200, Malformed, TRUE),
     HttpResponse(200, JsonArray(<<SomeRecord>>), FALSE),
     HttpResponse(399, JsonObject(SomeRecord), TRUE),
     HttpResponse(400, JsonArray(<<SomeRecord>>), TRUE),
     HttpResponse(400, JsonObject(SomeRecord), FALSE),
     HttpResponse(404, Malformed, TRUE),
     HttpResponse(500, JsonNull, TRUE)}

\* User ids given to the commands: decimal, signed, and not a number.
UserIDs == {Itoa(5), Itoa(7), Itoa(9), <<"+", "7">>, <<"a", "b", "c">>}

InitClient ==
    /\ TableIdle
    /\ sess = SessIdle
    /\ cform = CFormIdle
    /\ form = FormIdle
    /\ \E environ \in Layers(EnvNames) :
          conf = InitConfig(environ, Disk("absent", EmptyLayer), TRUE)
    /\ api = ApiIdle
    /\ bulk = BulkIdle
    /\ proc = CmdIdle
    /\ detail = DetailIdle

\* api.NewClient()
BuildClient ==
    /\ api' = [api EXCEPT !.built = TRUE,
                          !.client = NewClient(GetConfig(conf)),
                          !.builtFrom = GetConfig(conf),
                          !.call = NoCall]
    /\ UNCHANGED <<tableVars, conf, bulk, proc, detail, form, cform, sess>>

\* The API key is changed while a client exists.
RotateKey ==
    /\ \E value \in ConfigValues :
          conf' = UpdateConfig(conf, "api_key", value, TRUE).conf
    /\ UNCHANGED <<tableVars, api, bulk, proc, detail, form, cform, sess>>

\* One operation called on the built client.
Calls(op, userID, enrollments, resp, resp2, result) ==
    /\ api.built
    /\ api' = [api EXCEPT !.call = [op |-> op, userID |-> userID,
                                    enrollments |-> enrollments, resp |-> resp,
                                    resp2 |-> resp2, result |-> result]]
    /\ UNCHANGED <<tableVars, conf, bulk, proc, detail, form, cform, sess>>

CallGetCourses ==
    \E resp \in Responses :
        Calls("GetCourses", <<>>, <<>>, resp, NetError, GetCourses(api.client, resp))

CallGetAssignments ==
    \E resp \in Responses :
        Calls("GetAssignments", <<>>, <<>>, resp, NetError,
              GetAssignments(api.client, CourseID, resp))

CallGetUsers ==
    \E resp \in Responses :
        Calls("GetUsers", <<>>, <<>>, resp, NetError,
              GetUsers(api.client, CourseID, 1, PerPage, resp))

CallGetUserDetails ==
    \E resp \in Responses, userID \in UserIDs :
        Calls("GetUserDetails", userID, <<>>, resp, NetError,
              GetUserDetails(api.client, userID, resp))

CallAddUserToCourse ==
    \E resp \in Responses :
        Calls("AddUserToCourse", <<>>, <<>>, resp, NetError,
              AddUserToCourse(api.client, CourseID, resp))

CallGetEnrollments ==
    \E resp \in Responses :
        Calls("GetEnrollments", <<>>, <<>>, resp, NetError,
              GetEnrollments(api.client, CourseID, resp))

CallRemoveUserFromCourse ==
    \E resp \in Responses :
        Calls("RemoveUserFromCourse", <<>>, <<>>, resp, NetError,
              RemoveUserFromCourse(api.client, CourseID, Itoa(SomeRecord.ID), resp))

CallCreateAssignment ==
    \E resp \in Responses :
        Calls("CreateAssignment", <<>>, <<>>, resp, NetError,
              CreateAssignment(api.client, CourseID, resp))

NextClient ==
    \/ BuildClient
    \/ RotateKey
    \/ CallGetCourses
    \/ CallGetAssignments
    \/ CallGetUsers
    \/ CallGetUserDetails
    \/ CallAddUserToCourse
    \/ CallGetEnrollments
    \/ CallRemoveUserFromCourse
    \/ CallCreateAssignment

SpecClient == InitClient /\ [][NextClient]_vars

\* What each operation decodes its response into.
DecodeTarget(op) ==
    CASE op \in {"GetCourses", "GetAssignments", "GetUsers", "GetEnrollments"} -> "slice"
      [] op \in {"GetUserDetails", "AddUserToCourse", "CreateAssignment"}     -> "struct"
      [] OTHER                                                                -> "none"

\* The kind of an error, read off the message at the root of its wrap chain.
ErrorKind(err) ==
    IF err.chain = <<>> THEN "none"
    ELSE LET root == err.chain[Len(err.chain)]
         IN  CASE root \in {"error sending request", "error reading response"} -> "transport"
               [] root = "API error" -> "api"
               [] root \in {"error parsing courses", "error parsing assignments",
                            "error parsing users", "error parsing user details",
                            "error parsing enrollment response",
                            "error parsing enrollments",
                            "error parsing assignment response"} -> "decode"
               [] OTHER -> "other"

\* The network call was carried through: a response arrived and was read.
Completed(call) ==
    /\ api.client.BaseURL \in AbsoluteURLs
    /\ call.resp.kind = "http"
    /\ call.resp.status >= 400 \/ call.resp.readOk

Parses(call) ==
    \/ DecodeTarget(call.op) = "none"
    \/ call.resp.body.json = "null"
    \/ DecodeTarget(call.op) = "slice" /\ call.resp.body.json = "array"
    \/ DecodeTarget(call.op) = "struct" /\ call.resp.body.json = "object"

\* C16: for every operation that handed a request to the transport: a call that
\* cannot be completed yields a transport error; a status >= 400 yields an API
\* error with that status and body and nothing decoded; a status below 400
\* whose body does not parse yields a decode error; otherwise, and only then,
\* the decoded records are returned without error.
C16_OutcomeClassified ==
    LET call == api.call
        r    == call.result
        kind == ErrorKind(r.err)
    IN  (api.built /\ call.op # "none" /\ r.sent # <<>>) =>
            /\ ~Completed(call) => kind = "transport"
            /\ (Completed(call) /\ call.resp.status >= 400) =>
                    /\ kind = "api"
                    /\ r.err.status = call.resp.status
                    /\ r.err.body = call.resp.body
                    /\ r.value = <<>>
            /\ (Completed(call) /\ call.resp.status < 400 /\ ~Parses(call)) =>
                    kind = "decode"
            /\ (Completed(call) /\ call.resp.status < 400 /\ Parses(call)) =>
                    /\ kind = "none"
                    /\ r.value = IF DecodeTarget(call.op) = "none" \/ call.resp.body.json = "null"
                                 THEN <<>> ELSE call.resp.body.value
            /\ kind = "none" => (Completed(call) /\ call.resp.status < 400 /\ Parses(call))

C16_Witness ==
    /\ api.built /\ api.call.op = "GetCourses"
    /\ api.call.resp = HttpResponse(400, JsonArray(<<SomeRecord>>), TRUE)
    /\ api.call.result.err = APIError(400, JsonArray(<<SomeRecord>>))
    /\ api.call.result.sent # <<>>

\* C17: every request handed to the transport by any operation, with or
\* without a body, carries exactly one Authorization header, "Bearer " followed
\* by the API key of the configuration the client was built from.
C17_BearerOnEveryRequest ==
    \A i \in DOMAIN api.call.result.sent :
        {h \in api.call.result.sent[i].headers : h[1] = "Authorization"}
            = {<<"Authorization", "Bearer " \o api.builtFrom.APIKey>>}

C17_Witness ==
    /\ api.built /\ api.call.op = "CreateAssignment"
    /\ Len(api.call.result.sent) = 1
    /\ api.call.result.sent[1].hasBody
    /\ api.builtFrom.APIKey = "https://canvas.test/api/v1"
    /\ GetConfig(conf).APIKey = ""

(***************************************************************************)
(* Removing a user from a course by user id.                               *)
(***************************************************************************)

\* Enrollment listings of a course; user 7 can be enrolled twice.
EnrollmentLists ==
    UNION {[1..n -> {Enrollment(100, 5), Enrollment(101, 7), Enrollment(102, 7)}] :
                n \in 0..MaxEnrollments}

\* What the server answers to the listing of a course with these enrollments.
ListResponses(enrollments) ==
    {NetError,
     HttpResponse(500, Malformed, TRUE),
     HttpResponse(200, Malformed, TRUE),
     HttpResponse(200, JsonArray(enrollments), TRUE)}

\* What the server answers to the delete of one enrollment.
DeleteResponses ==
    {NetError,
     HttpResponse(404, Malformed, TRUE),
     HttpResponse(200, JsonObject(SomeRecord), TRUE)}

\* "users remove": the command calls RemoveUserByID once on the client it built.
CallRemoveUserByID ==
    /\ api.call = NoCall
    /\ \E userID \in UserIDs, enrollments \in EnrollmentLists :
        \E listResp \in ListResponses(enrollments), delResp \in DeleteResponses :
            Calls("RemoveUserByID", userID, enrollments, listResp, delResp,
                  RemoveUserByID(api.client, CourseID, userID, listResp, delResp))

NextRemove ==
    \/ BuildClient
    \/ CallRemoveUserByID

SpecRemove == InitClient /\ [][NextRemove]_vars

\* The delete requests among the requests a call made.
Deletes(call) == SelectSeq(call.result.sent, LAMBDA q : q.method = "DELETE")

\* The enrollments of the course whose user id equals the given user.
Matching(call) ==
    {i \in DOMAIN call.enrollments :
        /\ Atoi(call.userID).ok
        /\ call.enrollments[i].UserID = Atoi(call.userID).value}

\* The first matching enrollment in list order.
FirstMatching(call) == CHOOSE i \in Matching(call) : \A j \in Matching(call) : i <= j

DeleteSucceeds(call) ==
    /\ api.client.BaseURL \in AbsoluteURLs
    /\ call.resp2.kind = "http" /\ call.resp2.status < 400 /\ call.resp2.readOk

ListingSucceeds(call) ==
    /\ api.client.BaseURL \in AbsoluteURLs
    /\ call.resp = HttpResponse(200, JsonArray(call.enrollments), TRUE)

\* What RemoveUserByID owes for a course and a user, given which enrollments
\* match: one delete of the first match, none and not-found without a match.
RemovalContract(call) ==
    /\ Deletes(call) # <<>> <=> Matching(call) # {}
    /\ Matching(call) # {} =>
            /\ Len(Deletes(call)) = 1
            /\ Deletes(call)[1].path =
                    Path("enrollments", CourseID, Itoa(call.enrollments[FirstMatching(call)].ID))
            /\ DeleteSucceeds(call) => call.result.err = NoError
    /\ Matching(call) = {} =>
            /\ call.result.err = Errorf("no enrollment found for user")
            /\ Deletes(call) = <<>>

SelectedUserRows(n) == [i \in 1..n |-> UserRow(100 + i)]

InitBulk ==
    /\ TableIdle
    /\ sess = SessIdle
    /\ cform = CFormIdle
    /\ form = FormIdle
    /\ \E environ \in Layers(EnvNames) :
          conf = InitConfig(environ, Disk("absent", EmptyLayer), TRUE)
    /\ api = ApiIdle
    /\ \E n \in 1..MaxRows :
          \E scripts \in [1..n -> {"ok", "listError", "notEnrolled", "deleteError"}] :
              bulk = [BulkIdle EXCEPT !.scripts = scripts,
                                      !.model.selectedUsers = SelectedUserRows(n)]
    /\ proc = CmdIdle
    /\ detail = DetailIdle

\* runUsersList builds the client; the callback hands it to the bulk model and
\* runs the program.
BulkRun ==
    /\ bulk.pc = "idle"
    /\ bulk' = [bulk EXCEPT
                    !.model = NewMultiActionModel(CourseID, bulk.model.selectedUsers,
                                                  NewClient(GetConfig(conf))),
                    !.pc = "running"]
    /\ UNCHANGED <<tableVars, conf, api, proc, detail, form, cform, sess>>

\* The bulk program processes one message and ends on tea.Quit.
BulkProcess(msg) ==
    /\ bulk.pc = "running"
    /\ LET r == MultiUpdate(bulk.model, msg, bulk.scripts)
       IN  bulk' = [bulk EXCEPT !.model = r.model,
                                !.attempts = r.attempts,
                                !.pc = IF r.cmd = "Quit" THEN "quit" ELSE "running",
                                !.lastMsg = msg]
    /\ UNCHANGED <<tableVars, conf, api, proc, detail, form, cform, sess>>

BulkQuitKey == \E k \in QuitKeys : BulkProcess(k)

BulkUp == \E k \in {"up", "k"} : BulkProcess(k)

BulkDown == \E k \in {"down", "j"} : BulkProcess(k)

BulkEnter == BulkProcess("enter")

BulkOther == \E k \in {"x", "WindowSizeMsg"} : BulkProcess(k)

NextBulk ==
    \/ BulkRun
    \/ BulkQuitKey
    \/ BulkUp
    \/ BulkDown
    \/ BulkEnter
    \/ BulkOther

SpecBulk == InitBulk /\ [][NextBulk]_vars

\* The server lets the removal of row i succeed.
RowSucceeds(i) ==
    /\ bulk.model.client.BaseURL \in AbsoluteURLs
    /\ bulk.scripts[i] = "ok"

\* C12: once "remove all" has completed, a removal was attempted for every
\* selected row, in order; the success count is the number of rows whose
\* removal succeeded, the failure count the number whose removal failed, they
\* add up to the number of rows, and there is exactly one outcome message per
\* row, saying what happened to that row.
C12_BulkCounts ==
    bulk.model.completed =>
        LET bm   == bulk.model
            rows == DOMAIN bm.selectedUsers
        IN  /\ bulk.attempts = [i \in rows |-> bm.selectedUsers[i][1]]
            /\ bm.success = Cardinality({i \in rows : RowSucceeds(i)})
            /\ bm.failed = Cardinality({i \in rows : ~RowSucceeds(i)})
            /\ bm.success + bm.failed = Len(bm.selectedUsers)
            /\ bm.total = Len(bm.selectedUsers)
            /\ bm.progress = Len(bm.selectedUsers)
            /\ Len(bm.result.lines) = Len(bm.selectedUsers)
            /\ \A i \in rows :
                    bm.result.lines[i] =
                        [mark |-> IF RowSucceeds(i) THEN "Removed" ELSE "Failed to remove",
                         userName |-> bm.selectedUsers[i][2],
                         userID |-> bm.selectedUsers[i][1]]
            /\ bm.result.summary = <<bm.success, bm.total>>
            /\ bulk.pc = "quit"

C12_Witness ==
    /\ bulk.model.completed
    /\ Len(bulk.model.selectedUsers) = 3
    /\ bulk.scripts = <<"ok", "deleteError", "ok">>
    /\ bulk.model.success = 2
    /\ bulk.model.failed = 1
    /\ Len(bulk.model.result.lines) = 3
    /\ bulk.attempts = <<Itoa(101), Itoa(102), Itoa(103)>>

\* C21: every state the bulk program renders shows either the action menu
\* with no row processed, or the final summary with every selected row
\* processed in the order of the selected-row list; no state between the first
\* and the last removal is visible.
C21_RemoveAllInOneStep ==
    LET bm == bulk.model
        n  == Len(bm.selectedUsers)
    IN  bulk.pc # "idle" =>
            \/ /\ MultiView(bm).screen = "menu"
               /\ bm.progress = 0 /\ bm.success = 0 /\ bm.failed = 0
               /\ bm.result.lines = <<>>
               /\ bulk.attempts = <<>>
            \/ /\ MultiView(bm).screen = "result"
               /\ bm.progress = n
               /\ Len(MultiView(bm).lines) = n
               /\ \A i \in 1..n : MultiView(bm).lines[i].userID = bm.selectedUsers[i][1]
               /\ bulk.attempts = [i \in 1..n |-> bm.selectedUsers[i][1]]
               /\ MultiView(bm).summary = <<bm.success, n>>

C21_Witness ==
    /\ bulk.pc = "quit" /\ bulk.lastMsg = "enter"
    /\ MultiView(bulk.model).screen = "result"
    /\ Len(MultiView(bulk.model).lines) = 3
    /\ bulk.scripts = <<"listError", "ok", "notEnrolled">>
    /\ bulk.model.progress = 3

(***************************************************************************)
(* The commands run: one process per command.                              *)
(***************************************************************************)

InitCmd ==
    /\ TableIdle
    /\ sess = SessIdle
    /\ cform = CFormIdle
    /\ form = FormIdle
    /\ \E environ \in Layers(EnvNames) :
          conf = InitConfig(environ, Disk("absent", EmptyLayer), TRUE)
    /\ api = ApiIdle
    /\ bulk = BulkIdle
    /\ \E argsOk \in BOOLEAN :
          \E name \in {"users list", "users remove", "enrollments add", "assignments list"} :
              proc = NewCommand(name, argsOk)
    /\ detail = DetailIdle

Steps(c) == proc' = c /\ UNCHANGED <<tableVars, conf, api, bulk, detail, form, cform, sess>>

\* cobra rejects the arguments: Execute returns the error to main, which
\* prints it and exits with status 1.
CobraRejects ==
    /\ proc.pc = "start" /\ ~proc.argsOk
    /\ Steps([proc EXCEPT !.stderr = Append(@, "usage"), !.exit = 1, !.pc = "exited"])

\* cobra calls the command's Run function, which builds its client first.
CobraRuns ==
    /\ proc.pc = "start" /\ proc.argsOk
    /\ Steps([proc EXCEPT !.client = NewClient(GetConfig(conf)), !.pc = "running"])

\* One pass of the loop of runUsersList, answered by resp, and what follows
\* the loop when it ends.
UsersListPass(resp) ==
    LET r     == GetUsers(proc.client, CourseID, proc.page, PerPage, resp)
        users == proc.allUsers \o r.value
        c1    == [proc EXCEPT !.allUsers = users,
                              !.fetched = Append(@, r.value),
                              !.requests = @ \o r.sent]
    IN  Steps(IF r.err # NoError
              THEN ReportAndReturn(proc, "Error fetching users", r.sent)
              ELSE IF MorePages(Len(r.value), PerPage) THEN [c1 EXCEPT !.page = @ + 1]
              ELSE IF Len(users) = 0
              THEN [c1 EXCEPT !.stdout = Append(@, "No users found for this course."),
                              !.pc = "returned"]
              ELSE [c1 EXCEPT !.pc = "ui"])

UsersListFetch ==
    /\ proc.name = "users list" /\ proc.pc = "running" /\ proc.page <= MaxPages
    /\ \E resp \in PageResponses(proc.page) : UsersListPass(resp)

\* The Run function of "users remove".
UsersRemoveRuns ==
    /\ proc.name = "users remove" /\ proc.pc = "running"
    /\ \E userID \in UserIDs, enrollments \in EnrollmentLists :
        \E listResp \in ListResponses(enrollments), delResp \in DeleteResponses :
            LET r == RemoveUserByID(proc.client, CourseID, userID, listResp, delResp)
            IN  Steps(IF r.err # NoError
                      THEN ReportAndReturn(proc, "Error removing user", r.sent)
                      ELSE [proc EXCEPT !.stdout = Append(@, "Successfully removed user"),
                                        !.requests = @ \o r.sent,
                                        !.pc = "returned"])

\* The Run function of "enrollments add".
EnrollmentsAddRuns ==
    /\ proc.name = "enrollments add" /\ proc.pc = "running"
    /\ \E resp \in Responses :
          LET r == AddUserToCourse(proc.client, CourseID, resp)
          IN  Steps(IF r.err # NoError
                    THEN ReportAndReturn(proc, "Error enrolling user", r.sent)
                    ELSE [proc EXCEPT !.stdout = Append(@, "Successfully enrolled user"),
                                      !.requests = @ \o r.sent,
                                      !.pc = "returned"])

\* runAssignmentsList up to the start of its table program.
AssignmentsListRuns ==
    /\ proc.name = "assignments list" /\ proc.pc = "running"
    /\ \E resp \in Responses :
          LET r == GetAssignments(proc.client, CourseID, resp)
          IN  Steps(IF r.err # NoError
                    THEN ReportAndReturn(proc, "Error fetching assignments", r.sent)
                    ELSE [proc EXCEPT !.requests = @ \o r.sent, !.pc = "ui"])

\* The table program of a listing ends: with an error the command prints it
\* and calls os.Exit(1), else its Run function returns.
TableProgramEnds ==
    /\ proc.pc = "ui"
    /\ \E teaErr \in BOOLEAN :
          Steps(IF teaErr
                THEN [proc EXCEPT !.stderr = Append(@, "Error running program"),
                                  !.exit = 1, !.pc = "exited"]
                ELSE [proc EXCEPT !.pc = "returned"])

\* main: Execute returned nil, main returns.
MainEnds == proc.pc = "returned" /\ Steps([proc EXCEPT !.exit = 0, !.pc = "exited"])

NextCmd ==
    \/ CobraRejects
    \/ CobraRuns
    \/ UsersListFetch
    \/ UsersRemoveRuns
    \/ EnrollmentsAddRuns
    \/ AssignmentsListRuns
    \/ TableProgramEnds
    \/ MainEnds

SpecCmd == InitCmd /\ [][NextCmd]_vars

RECURSIVE Flatten(_)
Flatten(pages) == IF pages = <<>> THEN <<>> ELSE Head(pages) \o Flatten(Tail(pages))

\* C14: the user listing requests pages 1, 2, 3, ... in order at page size
\* PerPage, requests nothing after the first page that holds fewer than PerPage
\* users and ends the loop right after it, and has accumulated the fetched
\* pages concatenated in fetch order.
C14_PagesInOrderUntilShort ==
    proc.name = "users list" =>
        /\ \A i \in DOMAIN proc.requests :
                /\ proc.requests[i].query.page = Itoa(i)
                /\ proc.requests[i].query.per_page = Itoa(PerPage)
        /\ \A i \in DOMAIN proc.fetched :
                Len(proc.fetched[i]) < PerPage =>
                    /\ i = Len(proc.fetched)
                    /\ Len(proc.requests) = i
                    /\ proc.pc # "running"
        /\ (proc.pc \in {"ui", "returned", "exited"} /\ ~proc.failed /\ proc.argsOk) =>
                /\ proc.fetched # <<>>
                /\ Len(proc.fetched[Len(proc.fetched)]) < PerPage
                /\ Len(proc.requests) = Len(proc.fetched)
        /\ proc.allUsers = Flatten(proc.fetched)

C14_Witness ==
    /\ proc.name = "users list" /\ proc.pc = "ui"
    /\ Len(proc.fetched) = 3
    /\ Len(proc.fetched[1]) = 50 /\ Len(proc.fetched[2]) = 50 /\ Len(proc.fetched[3]) = 31
    /\ Len(proc.requests) = 3
    /\ Len(proc.allUsers) = 131

\* C15: a command whose remote operation failed has printed the error to the
\* error stream, has not repeated the failed call, and its process ends with a
\* non-zero exit status.
C15_RemoteFailureExitsNonZero ==
    (proc.failed /\ proc.pc = "exited") =>
        /\ Len(proc.stderr) = 1
        /\ proc.name = "users list" => Len(proc.requests) <= Len(proc.fetched) + 1
        /\ proc.exit # 0

(***************************************************************************)
(* The user listing against a course with a fixed roster: the server       *)
(* answers the request for page p of size s with the users (p-1)*s+1 ..    *)
(* p*s of the roster, or fails.                                            *)
(***************************************************************************)

\* Largest roster of a course.
MaxRoster == 151

\* The page of the roster a request for (page, perPage) is answered with.
RosterPage(n, page, perPage) ==
    LET first == (page - 1) * perPage + 1
        last  == IF page * perPage < n THEN page * perPage ELSE n
    IN  [i \in 1..(IF last < first THEN 0 ELSE last - first + 1) |-> [ID |-> first + i - 1]]

InitRoster ==
    /\ TableIdle
    /\ sess = SessIdle
    /\ cform = CFormIdle
    /\ form = FormIdle
    /\ \E environ \in Layers({"CANVAS_BASE_URL"}) :
          conf = InitConfig(environ, Disk("absent", EmptyLayer), TRUE)
    /\ api = ApiIdle
    /\ bulk = BulkIdle
    /\ \E n \in 0..MaxRoster : proc = [NewCommand("users list", TRUE) EXCEPT !.roster = n]
    /\ detail = DetailIdle

\* The server reads page and per_page off the request it is sent.
RosterFetch ==
    /\ proc.name = "users list" /\ proc.pc = "running"
    /\ LET sent == GetUsers(proc.client, CourseID, proc.page, PerPage, NetError).sent
       IN  \E query \in {IF sent = <<>> THEN <<0, 0>>
                         ELSE <<Atoi(sent[1].query.page).value,
                                Atoi(sent[1].query.per_page).value>>} :
             \E served \in {RosterPage(proc.roster, query[1], query[2])} :
               \E resp \in {HttpResponse(200, JsonArray(served), TRUE), NetError,
                             HttpResponse(500, Malformed, TRUE)} : UsersListPass(resp)

NextRoster ==
    \/ CobraRuns
    \/ RosterFetch
    \/ TableProgramEnds
    \/ MainEnds

\* The command's own code runs on: cobra calls Run, Run goes through its loop.
SpecRoster == InitRoster /\ [][NextRoster]_vars /\ WF_vars(CobraRuns \/ RosterFetch)

\* C22: against a roster of N users served consistently the page loop makes at
\* most N \div PerPage + 1 requests; it goes on after every full page and
\* ends, without a fetch error, exactly after request N \div PerPage + 1, whose
\* page holds the N % PerPage remaining users (none when N is a multiple of
\* PerPage); and the loop ends.
C22_PageLoopTerminates ==
    /\ [](LET n     == proc.roster
              pages == n \div PerPage + 1
          IN  /\ Len(proc.requests) <= pages
              /\ (proc.pc = "running" /\ ~proc.failed) =>
                    /\ \A i \in DOMAIN proc.fetched : Len(proc.fetched[i]) = PerPage
                    /\ proc.page = Len(proc.fetched) + 1
              /\ (proc.pc \in {"ui", "returned", "exited"} /\ ~proc.failed) =>
                    /\ Len(proc.requests) = pages
                    /\ Len(proc.fetched) = pages
                    /\ \A i \in 1..(pages - 1) : Len(proc.fetched[i]) = PerPage
                    /\ Len(proc.fetched[pages]) = n % PerPage
                    /\ Len(proc.allUsers) = n)
    /\ <>(proc.pc \in {"ui", "returned", "exited"})

C22_Witness ==
    /\ proc.roster = 100 /\ proc.pc = "ui" /\ ~proc.failed
    /\ Len(proc.requests) = 3
    /\ proc.fetched[3] = <<>>
    /\ Len(proc.allUsers) = 100

(***************************************************************************)
(* The detail view's program: Init's command fetches the record while the  *)
(* program already processes keys and window sizes.                        *)
(***************************************************************************)

InitDetail ==
    /\ TableIdle
    /\ sess = SessIdle
    /\ cform = CFormIdle
    /\ form = FormIdle
    /\ conf = ConfIdle
    /\ api = ApiIdle
    /\ bulk = BulkIdle
    /\ proc = CmdIdle
    /\ \E assignmentID \in {Itoa(11), Itoa(12), <<"a", "b", "c">>} :
          detail = [DetailIdle EXCEPT
                        !.model = NewAssignmentDetailModel(CourseID, assignmentID)]

\* p.Run(): the program starts and runs the command Init returned.
DetailRun ==
    /\ detail.pc = "idle"
    /\ detail' = [detail EXCEPT !.pc = "running", !.fetch = "inflight",
                                !.fetches = @ + 1, !.lastMsg = "Init"]
    /\ UNCHANGED <<tableVars, conf, api, bulk, proc, form, cform, sess>>

\* The program hands one message to Update, keeps the model, renders it, and
\* ends on tea.Quit.
DetailProcess(r, msg) ==
    /\ detail.pc = "running"
    /\ detail' = [detail EXCEPT
                    !.model = r.model,
                    !.pc = IF r.command = "Quit" THEN "quit" ELSE "running",
                    !.shown = @ \/ DetailView(r.model).screen = "Assignment Details",
                    !.fetch = IF msg \in {"loaded", "error"} THEN msg ELSE @,
                    !.record = IF msg = "loaded" THEN r.model.assignment ELSE @,
                    !.first = IF @ = "none" /\ msg \in {"loaded", "error", "WindowSizeMsg"}
                              THEN msg ELSE @,
                    !.lastMsg = msg]
    /\ UNCHANGED <<tableVars, conf, api, bulk, proc, form, cform, sess>>

\* The fetch of Init's command succeeds: AssignmentDetailLoadedMsg with the
\* assignment the server returned.
DetailLoaded ==
    /\ detail.fetch = "inflight"
    /\ \E a \in {[ID |-> 11, Name |-> "Essay"], [ID |-> 12, Name |-> "Quiz"],
                 [ID |-> 12, Name |-> ""]} :
          DetailProcess(UpdateDetailLoaded(detail.model, a), "loaded")

\* The fetch fails: AssignmentDetailErrorMsg.
DetailFailed ==
    /\ detail.fetch = "inflight"
    /\ DetailProcess(UpdateDetailError(detail.model), "error")

DetailKeyQuit == DetailProcess(UpdateDetailQuit(detail.model), "quit key")

DetailWindowSize ==
    \E size \in {<<80, 24>>, <<100, 30>>, <<120, 40>>} :
        DetailProcess(UpdateDetailWindowSize(detail.model, size), "WindowSizeMsg")

DetailOtherMsg ==
    \E msg \in {"j", "k", "MouseMsg"} :
        DetailProcess(UpdateDetailOther(detail.model), msg)

NextDetail ==
    \/ DetailRun
    \/ DetailOtherMsg
    \/ DetailLoaded
    \/ DetailFailed
    \/ DetailKeyQuit
    \/ DetailWindowSize

SpecDetail == InitDetail /\ [][NextDetail]_vars

\* C18: a started view has issued exactly one fetch; after a failed fetch the
\* view has quit, never showed record details and fetched nothing more; after
\* a successful fetch, once the view is laid out, it displays the fields of
\* the fetched record.
C18_OneFetchThenShowOrQuit ==
    /\ detail.fetches = IF detail.pc = "idle" THEN 0 ELSE 1
    /\ detail.fetch = "error" =>
            /\ detail.pc = "quit"
            /\ ~detail.shown
            /\ DetailView(detail.model).screen # "Assignment Details"
    /\ (detail.fetch = "loaded" /\ detail.model.ready) =>
            /\ detail.shown
            /\ DetailView(detail.model) =
                    [screen |-> "Assignment Details",
                     content |-> [title |-> detail.record.Name, id |-> detail.record.ID,
                                  valueWidth |-> detail.model.width - 24]]

C18_Witness ==
    /\ detail.fetch = "error" /\ detail.pc = "quit"
    /\ detail.model.ready /\ detail.fetches = 1
    /\ DetailView(detail.model).screen = "Error loading assignment details"

\* C25: the view renders "Error loading assignment details" only after the
\* fetch has failed; while the fetch is pending it renders "Loading...".
C25_ErrorTextOnlyAfterFailure ==
    /\ DetailView(detail.model).screen = "Error loading assignment details" =>
            detail.fetch = "error"
    /\ (detail.pc = "running" /\ detail.fetch = "inflight") =>
            DetailView(detail.model).screen = "Loading..."

\* C26: once the window size and the successful fetch result have both been
\* processed, in either order, the viewport holds the formatted details of the
\* fetched assignment, laid out for the current width.
C26_ContentAfterBoth ==
    (detail.fetch = "loaded" /\ detail.model.ready) =>
        /\ detail.first \in {"loaded", "WindowSizeMsg"}
        /\ detail.model.assignment = detail.record
        /\ detail.model.viewport.content = formatAssignmentDetails(detail.model)
        /\ detail.model.viewport.content # NoContent
        /\ detail.model.viewport.content.title = detail.record.Name

C26_Witness ==
    /\ detail.fetch = "loaded" /\ detail.model.ready
    /\ detail.first = "loaded"
    /\ detail.lastMsg = "WindowSizeMsg"
    /\ detail.model.viewport.content = [title |-> "Quiz", id |-> 12, valueWidth |-> 76]

(***************************************************************************)
(* The form of "assignments add" at work: the user edits the focused       *)
(* field, moves on or back (the field's Validate runs on its text and      *)
(* holds the focus while it fails), and submits from the last field; the   *)
(* command then builds the assignment and sends it.                        *)
(***************************************************************************)

InitForm ==
    /\ TableIdle
    /\ sess = SessIdle
    /\ cform = CFormIdle
    /\ form = FormIdle
    /\ \E environ \in Layers({"CANVAS_API_KEY"}) :
          conf = InitConfig(environ, Disk("absent", EmptyLayer), TRUE)
    /\ api = ApiIdle
    /\ bulk = BulkIdle
    /\ proc = CmdIdle
    /\ detail = DetailIdle

FormStep(f, key) ==
    /\ form' = [f EXCEPT !.lastKey = key]
    /\ UNCHANGED <<tableVars, conf, api, bulk, proc, detail, cform, sess>>

\* formUI.Run()
FormRun == form.pc = "idle" /\ FormStep([form EXCEPT !.pc = "editing"], "Run")

\* The user changes the text of the focused field.  Name is bound to form.Name
\* by Value(); the other text fields keep their text to themselves.
FormEdit ==
    /\ form.pc = "editing"
    /\ \E s \in IF form.focus = 1 THEN {"", "HW1"}
                 ELSE IF form.focus = 2 THEN {"", "100", "7.5", "-1", "abc"}
                 ELSE {"", "2025-01-15 10:00", "2025-02-01 23:59", "soon"} :
          /\ s # form.texts[form.focus]
          /\ FormStep([form EXCEPT !.texts[form.focus] = s,
                                   !.data.Name = IF form.focus = 1 THEN s ELSE @], "edit")

\* shift+tab: back to the previous field, if the focused one validates.
FormPrev ==
    /\ form.pc = "editing" /\ form.focus > 1
    /\ LET v == Validate(FormFields[form.focus], form.texts[form.focus], form.data)
       IN  FormStep([form EXCEPT !.data = v.data,
                                 !.focus = IF v.ok THEN @ - 1 ELSE @], "shift+tab")

\* enter or tab before the last field: on to the next field, if the focused
\* one validates.
FormNext ==
    /\ form.pc = "editing" /\ form.focus < Len(FormFields)
    /\ LET v == Validate(FormFields[form.focus], form.texts[form.focus], form.data)
       IN  FormStep([form EXCEPT !.data = v.data,
                                 !.focus = IF v.ok THEN @ + 1 ELSE @], "enter")

\* enter on the last field: Run returns nil if it validates, and the command
\* builds the assignment, sends it and reports.
FormSubmit ==
    /\ form.pc = "editing" /\ form.focus = Len(FormFields)
    /\ LET v == Validate(FormFields[form.focus], form.texts[form.focus], form.data)
       IN  IF ~v.ok THEN FormStep([form EXCEPT !.data = v.data], "enter")
           ELSE \E resp \in {NetError, HttpResponse(200, JsonObject(SomeRecord), TRUE)} :
                  FormStep([form EXCEPT
                              !.data = v.data,
                              !.pc = "submitted",
                              !.envelope = AssignmentEnvelope(NewAssignment(v.data)),
                              !.result = CreateAssignment(NewClient(GetConfig(conf)),
                                                          CourseID, resp)],
                           "enter")

\* ctrl+c: Run returns an error, the command reports it and returns.
FormAbort == form.pc = "editing" /\ FormStep([form EXCEPT !.pc = "aborted"], "ctrl+c")

NextForm ==
    \/ FormRun
    \/ FormEdit
    \/ FormPrev
    \/ FormNext
    \/ FormSubmit
    \/ FormAbort

SpecForm == InitForm /\ [][NextForm]_vars

\* C23: in the envelope of every assignment sent, the key of an optional time
\* field (due_at, unlock_at, lock_at) is present only if that time is set on
\* the assignment.
C23_UnsetDatesAbsent ==
    form.pc = "submitted" =>
        LET a == NewAssignment(form.data)
        IN  /\ "due_at" \in DOMAIN form.envelope <=> a.DueAt # ZeroTime
            /\ "unlock_at" \in DOMAIN form.envelope <=> a.UnlockAt # ZeroTime
            /\ "lock_at" \in DOMAIN form.envelope <=> a.LockAt # ZeroTime

\* C28: in the envelope of every assignment sent, an optional field whose
\* text is empty at submission is unset: zero points, no date.
C28_EmptyFieldsSentUnset ==
    form.pc = "submitted" =>
        LET a == NewAssignment(form.data)
        IN  /\ form.texts[2] = "" => a.PointsPossible = 0
            /\ form.texts[3] = "" => a.DueAt = ZeroTime
            /\ form.texts[4] = "" => a.UnlockAt = ZeroTime
            /\ form.texts[5] = "" => a.LockAt = ZeroTime

(***************************************************************************)
(* The configuration form at work: "canvas-cli config".                    *)
(***************************************************************************)

InitCForm ==
    /\ TableIdle
    /\ sess = SessIdle
    /\ cform = CFormIdle
    /\ form = FormIdle
    /\ \E environ \in Layers({"CANVAS_BASE_URL"}) :
          conf = InitConfig(environ, Disk("absent", EmptyLayer), TRUE)
    /\ api = ApiIdle
    /\ bulk = BulkIdle
    /\ proc = CmdIdle
    /\ detail = DetailIdle

\* runConfig up to tea.NewProgram(model).Run().
CFormRun ==
    /\ cform.pc = "idle"
    /\ cform' = [cform EXCEPT !.model = NewConfigModel(GetConfig(conf)),
                              !.pc = "running", !.lastKey = "Run"]
    /\ UNCHANGED <<tableVars, conf, api, bulk, proc, detail, form, sess>>

\* The program processes one key and ends on tea.Quit.
CFormProcess(key, text, w1, w2) ==
    /\ cform.pc = "running"
    /\ LET r == ConfigUpdate(cform.model, key, text, conf, w1, w2)
       IN  /\ cform' = [cform EXCEPT !.model = r.model,
                                     !.pc = IF r.cmd = "Quit" THEN "quit" ELSE "running",
                                     !.writes = r.writes,
                                     !.lastKey = key]
           /\ conf' = r.conf
    /\ UNCHANGED <<tableVars, api, bulk, proc, detail, form, sess>>

CFormQuit == \E key \in {"ctrl+c", "esc"} : CFormProcess(key, "", TRUE, TRUE)

CFormCycle ==
    \E key \in {"tab", "shift+tab", "up", "down"} : CFormProcess(key, "", TRUE, TRUE)

CFormEnter == \E w1 \in BOOLEAN, w2 \in BOOLEAN : CFormProcess("enter", "", w1, w2)

CFormType == \E text \in ConfigValues : CFormProcess("runes", text, TRUE, TRUE)

NextCForm ==
    \/ CFormRun
    \/ CFormQuit
    \/ CFormCycle
    \/ CFormEnter
    \/ CFormType

SpecCForm == InitCForm /\ [][NextCForm]_vars

\* C24: the focus index is always one of the inputs; an update writes
\* configuration only for Enter with the last input focused, and then base_url
\* first and api_key after it; Esc and ctrl+c quit and write nothing; Enter on
\* the first input moves the focus to the next input and does nothing else.
C24_ConfigFormWrites ==
    /\ [](cform.model.focusIndex \in 0..(Len(cform.model.inputs) - 1))
    /\ [][LET key   == cform'.lastKey
              last  == Len(cform.model.inputs) - 1
              saves == key = "enter" /\ cform.model.focusIndex = last
          IN  cform.pc = "running" =>
                /\ saves => cform'.writes \in {<<"base_url">>, <<"base_url", "api_key">>}
                /\ ~saves => (cform'.writes = <<>> /\ conf' = conf)
                /\ key \in {"ctrl+c", "esc"} => cform'.pc = "quit"
                /\ (key = "enter" /\ cform.model.focusIndex = 0) =>
                        /\ cform'.model.focusIndex = 1
                        /\ cform'.pc = "running"
                        /\ [i \in DOMAIN cform.model.inputs |-> cform'.model.inputs[i].value]
                              = [i \in DOMAIN cform.model.inputs |-> cform.model.inputs[i].value]
                        /\ ConfigView(cform'.model) = ConfigView(cform.model)]_vars

C24_Witness ==
    /\ cform.pc = "quit" /\ cform.model.done /\ cform.lastKey = "enter"
    /\ cform.writes = <<"base_url", "api_key">>
    /\ cform.model.focusIndex = 1
    /\ cform.model.inputs[1].value = "http://[::1"
    /\ GetConfig(conf).APIKey = "https://canvas.test/api/v1"

(***************************************************************************)
(* "assignments list" at work: listings and detail views nest as the user  *)
(* opens assignments; the keys the user presses go to the program in the   *)
(* foreground or to the reader of a suspended one.                         *)
(***************************************************************************)

InitList ==
    /\ TableIdle
    /\ sess = [SessIdle EXCEPT !.pc = "start"]
    /\ cform = CFormIdle
    /\ form = FormIdle
    /\ \E environ \in Layers({"CANVAS_API_KEY"}) :
          conf = InitConfig(environ, Disk("absent", EmptyLayer), TRUE)
    /\ api = ApiIdle
    /\ bulk = BulkIdle
    /\ proc = CmdIdle
    /\ detail = DetailIdle

\* runAssignmentsList up to the start of its table program: the fetch fails
\* and the function returns, or the table program of a new listing starts.
ListFetch ==
    /\ sess.pc = "start"
    /\ \E resp \in {NetError, HttpResponse(500, Malformed, TRUE)}
                    \cup {HttpResponse(200, JsonArray(as), TRUE) :
                            as \in {<<>>, <<[ID |-> 11, Name |-> "Essay"]>>,
                                    <<[ID |-> 11, Name |-> "Essay"],
                                      [ID |-> 12, Name |-> "Quiz"]>>}} :
          LET r == GetAssignments(NewClient(GetConfig(conf)), CourseID, resp)
          IN  sess' = IF r.err # NoError
                      THEN [ListReturns(sess) EXCEPT !.last = "fetch failed"]
                      ELSE [sess EXCEPT !.pc = "list", !.list = NewListModel(r.value),
                                        !.pending = "none", !.last = "fetched"]
    /\ UNCHANGED <<tableVars, conf, api, bulk, proc, detail, form, cform>>

\* The table program in the foreground processes a key: the one its reader
\* held while it was suspended, else the one the user presses.  On tea.Quit
\* the program ends and its runAssignmentsList returns; when Update invokes
\* OnSelect the program stays inside Update and runAssignmentsView starts.
ListKey ==
    /\ sess.pc = "list"
    /\ \E key \in (IF sess.pending = "none" THEN {"q", "enter", "down"}
                    ELSE {sess.pending}) :
          LET r == Update(sess.list, key)
              s == [sess EXCEPT !.list = r.model, !.pending = "none",
                                !.last = "key", !.lastKey = key]
          IN  /\ r.calls # <<>> => Len(sess.stack) < MaxNesting
              /\ IF r.cmd = "Quit"
                 THEN /\ sess' = [ListReturns(s) EXCEPT !.last = "key"]
                      /\ UNCHANGED detail
                 ELSE IF r.calls # <<>>
                 THEN /\ sess' = [s EXCEPT !.pc = "detail",
                                           !.stack = Append(@, Suspended(r.model, "none"))]
                      /\ detail' = [DetailIdle EXCEPT !.model =
                              NewAssignmentDetailModel(CourseID, r.calls[1].arg[1])]
                 ELSE /\ sess' = s
                      /\ UNCHANGED detail
    /\ UNCHANGED <<tableVars, conf, api, bulk, proc, form, cform>>

\* The detail program has ended: runAssignmentsView returns and OnSelect
\* calls runAssignmentsList(nil, args).
DetailCloses ==
    /\ sess.pc = "detail" /\ detail.pc = "quit"
    /\ sess' = [sess EXCEPT !.pc = "start", !.last = "closed"]
    /\ UNCHANGED <<tableVars, conf, api, bulk, proc, detail, form, cform>>

\* A key the user presses is read by the input reader of a suspended table
\* program instead of the program in the foreground.
KeyStolen ==
    /\ sess.pc \in {"list", "detail"}
    /\ \E i \in DOMAIN sess.stack, key \in {"q", "enter", "down"} :
          /\ sess.stack[i].stolen = "none"
          /\ sess' = [sess EXCEPT !.stack[i].stolen = key, !.last = "stolen"]
    /\ UNCHANGED <<tableVars, conf, api, bulk, proc, detail, form, cform>>

NextList ==
    \/ ListFetch
    \/ ListKey
    \/ (sess.pc = "detail" /\ DetailRun)
    \/ (sess.pc = "detail" /\ DetailLoaded)
    \/ (sess.pc = "detail" /\ DetailFailed)
    \/ (sess.pc = "detail" /\ DetailKeyQuit)
    \/ DetailCloses
    \/ KeyStolen

SpecList == InitList /\ [][NextList]_vars

\* C27: within one "assignments list" command at most one list session is
\* active at a time (the table program in the foreground and those suspended
\* inside OnSelect, together), and a quit key processed by the list ends the
\* command, however many detail views were opened and closed before.
C27_OneListSession ==
    /\ [](Len(sess.stack) + (IF sess.pc = "list" THEN 1 ELSE 0) <= 1)
    /\ [][(sess.pc = "list" /\ sess'.last = "key" /\ sess'.lastKey \in QuitKeys
            /\ sess' # sess) => sess'.pc = "returned"]_vars

====
